---- MODULE Spec2Model ----
(***************************************************************************)
(* Model of the mcp-use server runtime:                                    *)
(*   - mcp_use/server/server.py   (MCPServer: default protocol handlers,   *)
(*     the resource subscription table, notify_resource_updated)           *)
(*   - mcp_use/server/context.py  (Context.log and the log-level gate)     *)
(* The session registry (MiddlewareServerSession._active_sessions) is      *)
(* maintained by mcp_use/server/middleware/server_session.py; its          *)
(* register-on-connect / unregister-on-disconnect behaviour is taken from  *)
(* the specification (sections 3 and 4.1).                                 *)
(***************************************************************************)
EXTENDS Integers, Sequences, FiniteSets, TLC

(***************************************************************************)
(* Bounds of the model.                                                    *)
(***************************************************************************)
\* number of session objects constructed over the life of the server
MaxSessions == 2
\* number of distinct values id(session) can take (memory addresses)
MaxAddrs == 2
\* number of distinct request ids
MaxRequestId == 1
\* number of calls of MCPServer.run() over the life of the server
MaxRuns == 2

\* number of requests that can be inside their handlers at the same time
MaxInFlight == 2

Sessions == 1..MaxSessions
Addrs == 1..MaxAddrs
RequestIds == 1..MaxRequestId
Slots == 1..MaxInFlight
\* addresses of the middleware context objects: one per wrapper of every
\* request in flight
ContextAddrs == 1..(MaxInFlight * MaxRuns)
\* _current_session() returning None (no request context)
NoSession == 0
Uris == {"data://live", "test://subscribable"}
\* the resource the broadcast scenarios are about
LiveUris == {"data://live"}
Messages == {"x", "y"}
LoggerNames == {"None", "my.logger"}

(***************************************************************************)
(* context.py: the log-level table.                                        *)
(***************************************************************************)
LOG_LEVEL_ORDER ==
    ("debug" :> 0) @@ ("info" :> 1) @@ ("notice" :> 2) @@ ("warning" :> 3) @@
    ("error" :> 4) @@ ("critical" :> 5) @@ ("alert" :> 6) @@ ("emergency" :> 7)

LogLevels == DOMAIN LOG_LEVEL_ORDER
\* a level name outside the table, as logging/setLevel may carry
UnknownLevels == {"verbose"}
SetLevelInputs == LogLevels \cup UnknownLevels

LevelRank_unknown_highest(level) ==
    IF level \in DOMAIN LOG_LEVEL_ORDER THEN LOG_LEVEL_ORDER[level] ELSE 8

\* _LOG_LEVEL_ORDER.get(level, 0)
LevelRank(level) ==
    IF level \in DOMAIN LOG_LEVEL_ORDER THEN LOG_LEVEL_ORDER[level] ELSE 0

Suppressed_inclusive(level, client_level) ==
    LevelRank(level) <= LevelRank(client_level)

\* the early return of Context.log
Suppressed(level, client_level) ==
    LevelRank(level) < LevelRank(client_level)

send_log_message_swapped(session, level, data, logger, related_request_id) ==
    [on |-> session, level |-> level, data |-> logger, logger |-> data,
     related_request_id |-> related_request_id]

\* the call Context.log makes on the session of its request context
send_log_message(session, level, data, logger, related_request_id) ==
    [on |-> session, level |-> level, data |-> data, logger |-> logger,
     related_request_id |-> related_request_id]

DefaultClientLogLevel_info == "info"

\* self._client_log_level: str = "debug"
DefaultClientLogLevel == "debug"

StoredLevel_raise_only(old, level) ==
    IF LevelRank(level) >= LevelRank(old) THEN level ELSE old

\* self._client_log_level = str(level)
StoredLevel(old, level) == level

(***************************************************************************)
(* server.py: the subscription table, a dict uri -> set of id(session).    *)
(* A dict is a function whose domain is its set of keys.                   *)
(***************************************************************************)
EmptyDict == [k \in {} |-> {}]

\* dict.get(uri) is None or an empty set
Falsy(d, uri) == uri \notin DOMAIN d \/ d[uri] = {}

\* the set object dict.get(uri) returns, {} standing for None
Lookup(d, uri) == IF uri \in DOMAIN d THEN d[uri] ELSE {}

SubscribeResult_toggle(d, uri, sid) ==
    [k \in DOMAIN d \cup {uri} |->
        IF k = uri
        THEN IF sid \in Lookup(d, uri) THEN d[uri] \ {sid} ELSE Lookup(d, uri) \cup {sid}
        ELSE d[k]]

\* d.setdefault(uri, set()).add(sid)
SubscribeResult(d, uri, sid) ==
    [k \in DOMAIN d \cup {uri} |->
        IF k = uri THEN Lookup(d, uri) \cup {sid} ELSE d[k]]

UnsubscribeRaises_remove(d, uri, sid) == uri \notin DOMAIN d \/ sid \notin d[uri]

\* an exception in _handle_unsubscribe: .get and .discard raise for no
\* argument, and `del d[uri]` is reached only with uri in the dict
UnsubscribeRaises(d, uri, sid) ==
    /\ ~Falsy(d, uri)
    /\ d[uri] \ {sid} = {}
    /\ uri \notin DOMAIN d

UnsubscribeResult_keep(d, uri, sid) == d

UnsubscribeResult_leave_empty(d, uri, sid) ==
    IF Falsy(d, uri) THEN d ELSE [d EXCEPT ![uri] = d[uri] \ {sid}]

\* subscribers = d.get(uri); if subscribers: discard(sid); if empty: del d[uri]
UnsubscribeResult(d, uri, sid) ==
    IF Falsy(d, uri) THEN d
    ELSE IF d[uri] \ {sid} = {}
         THEN [k \in DOMAIN d \ {uri} |-> d[k]]
         ELSE [d EXCEPT ![uri] = d[uri] \ {sid}]


(***************************************************************************)
(* server.py 142-147 and 399-439: the middleware chain and its wiring onto *)
(* the request handlers.  MiddlewareManager and TelemetryMiddleware live   *)
(* in mcp_use/server/middleware and are taken from the specification       *)
(* (section 4.4).                                                          *)
(***************************************************************************)
\* the built-in interceptor
Telemetry == "telemetry"
\* interceptors a caller may pass to the constructor
UserMiddleware == {"I1", "I2"}
\* the constructor's `middleware` argument: None or a list
MiddlewareLists == {<<>>, <<"I1">>, <<"I1", "I2">>, <<"I2", "I1">>}

\* MiddlewareManager.add_middleware
add_middleware(chain, m) == Append(chain, m)

RECURSIVE AddAll(_, _, _)
\* for middleware_instance in middleware: add_middleware(middleware_instance)
AddAll(chain, list, i) ==
    IF i > Len(list) THEN chain
    ELSE AddAll(add_middleware(chain, list[i]), list, i + 1)

BuildChain_telemetry_last(middleware) ==
    add_middleware(AddAll(<<>>, middleware, 1), Telemetry)

\* MiddlewareManager(); add_middleware(TelemetryMiddleware()); then the list
BuildChain(middleware) ==
    AddAll(add_middleware(<<>>, Telemetry), middleware, 1)

\* the request classes _wrap_handlers_with_middleware wires, with the method
\* name each wrapper is given, in the order of the calls
WiredHandlers_short ==
    << <<"CallToolRequest", "tools/call">>,
       <<"ReadResourceRequest", "resources/read">>,
       <<"GetPromptRequest", "prompts/get">>,
       <<"ListToolsRequest", "tools/list">>,
       <<"ListResourcesRequest", "resources/list">>,
       <<"ListPromptsRequest", "prompts/list">>,
       <<"SetLevelRequest", "logging/setLevel">>,
       <<"SubscribeRequest", "resources/subscribe">>,
       <<"UnsubscribeRequest", "resources/unsubscribe">> >>

WiredHandlers ==
    << <<"CallToolRequest", "tools/call">>,
       <<"ReadResourceRequest", "resources/read">>,
       <<"GetPromptRequest", "prompts/get">>,
       <<"ListToolsRequest", "tools/list">>,
       <<"ListResourcesRequest", "resources/list">>,
       <<"ListPromptsRequest", "prompts/list">>,
       <<"SetLevelRequest", "logging/setLevel">>,
       <<"SubscribeRequest", "resources/subscribe">>,
       <<"UnsubscribeRequest", "resources/unsubscribe">>,
       <<"CompleteRequest", "completion/complete">> >>

\* the handlers FastMCP and the lowlevel server install at construction
FastMCPHandlers ==
    {"CallToolRequest", "ReadResourceRequest", "GetPromptRequest",
     "ListToolsRequest", "ListResourcesRequest", "ListPromptsRequest",
     "PingRequest"}

\* the handlers _register_default_protocol_handlers installs
DefaultHandlers ==
    {"SetLevelRequest", "SubscribeRequest", "UnsubscribeRequest", "CompleteRequest"}

RequestClasses == FastMCPHandlers \cup DefaultHandlers

\* the protocol method of a request class (mcp.types)
MethodOf(cls) ==
    CASE cls = "CallToolRequest" -> "tools/call"
      [] cls = "ReadResourceRequest" -> "resources/read"
      [] cls = "GetPromptRequest" -> "prompts/get"
      [] cls = "ListToolsRequest" -> "tools/list"
      [] cls = "ListResourcesRequest" -> "resources/list"
      [] cls = "ListPromptsRequest" -> "prompts/list"
      [] cls = "SetLevelRequest" -> "logging/setLevel"
      [] cls = "SubscribeRequest" -> "resources/subscribe"
      [] cls = "UnsubscribeRequest" -> "resources/unsubscribe"
      [] cls = "CompleteRequest" -> "completion/complete"
      [] cls = "PingRequest" -> "ping"

\* a registered handler: the function installed by a decorator (base) and the
\* `wrapped` closures around it, innermost first, each with its method name
Handler(base) == [base |-> base, wrappers |-> <<>>]

\* request_handlers after MCPServer.__init__
InitialHandlers ==
    [cls \in RequestClasses |->
        Handler(IF cls \in DefaultHandlers THEN "default" ELSE "fastmcp")]

\* wrap_request(request_cls, method)
wrap_request(handlers, request_cls, method) ==
    IF request_cls \notin DOMAIN handlers THEN handlers
    ELSE [handlers EXCEPT ![request_cls].wrappers = Append(@, method)]

RECURSIVE WrapFrom(_, _, _)
WrapFrom(handlers, wired, i) ==
    IF i > Len(wired) THEN handlers
    ELSE WrapFrom(wrap_request(handlers, wired[i][1], wired[i][2]), wired, i + 1)

\* _wrap_handlers_with_middleware
wrap_handlers_with_middleware(handlers) == WrapFrom(handlers, WiredHandlers, 1)

\* len(s), s.startswith(prefix), sub in s
StartsWith(s, prefix) ==
    Len(prefix) <= Len(s) /\ SubSeq(s, 1, Len(prefix)) = prefix

Contains(s, sub) ==
    \E i \in 1..(Len(s) - Len(sub) + 1) : SubSeq(s, i, i + Len(sub) - 1) = sub

\* hasattr(obj, name)
HasAttr(obj, name) == name \in DOMAIN obj

\* completion/complete inputs: a resource template reference, a reference to
\* a resource that is no template, a prompt reference; the argument's name
\* and value
CompletionRefs ==
    {[type |-> "ref/resource", uri |-> "test://template/{id}/data"],
     [type |-> "ref/resource", uri |-> "test://static-text"],
     [type |-> "ref/prompt", name |-> "test_prompt_with_arguments"]}
CompletionArgNames == {"id", "arg1", "arg2", "other"}
CompletionArgs == {"", "d", "ba"}
\* the params of a request that has none
NoParams == [none |-> "None"]
\* tools/call inputs: the name of the tool (conformance server)
ToolNames == {"test_simple_text", "test_error_handling"}

\* request.params of a request of class cls
RequestParams(cls) ==
    IF cls = "CompleteRequest"
    THEN {[ref |-> r, argument |-> [name |-> n, value |-> a]] :
             r \in CompletionRefs, n \in CompletionArgNames, a \in CompletionArgs}
    ELSE IF cls = "CallToolRequest"
    THEN {[name |-> t] : t \in ToolNames}
    ELSE IF cls = "SetLevelRequest"
    THEN {[level |-> "warning"]}
    ELSE IF cls \in {"SubscribeRequest", "UnsubscribeRequest"}
    THEN {[uri |-> u] : u \in LiveUris}
    ELSE {NoParams}

\* the tool's function raises
ToolRaises(tool) == tool = "test_error_handling"

ToolResult_reraise(base, tool) ==
    [kind |-> IF ToolRaises(tool) THEN "exception" ELSE "result",
     by |-> base, isError |-> FALSE, completion |-> [values |-> <<>>, total |-> 0,
                                                      hasMore |-> FALSE]]

\* the tools/call handler FastMCP installs: an exception of the tool's
\* function becomes a tool result with isError set
ToolResult(base, tool) ==
    [kind |-> "result", by |-> base, isError |-> ToolRaises(tool),
     completion |-> [values |-> <<>>, total |-> 0, hasMore |-> FALSE]]

DefaultCompletion_has_more == [values |-> <<>>, total |-> 0, hasMore |-> TRUE]

\* Completion(values=[], total=0, hasMore=False)
DefaultCompletion == [values |-> <<>>, total |-> 0, hasMore |-> FALSE]

\* [v for v in candidates if v.startswith(value)]
Matching(candidates, value) ==
    LET Matches(v) == StartsWith(v, value) IN SelectSeq(candidates, Matches)

\* Completion(values=values, total=len(values), hasMore=False)
Completion(values) == [values |-> values, total |-> Len(values), hasMore |-> FALSE]

\* conformance_server.py handle_completion(ref, argument), the handler
\* registered with mcp.completion()
CustomCompletion(params) ==
    LET ref == params.ref
        argument == params.argument
    IN IF /\ HasAttr(ref, "uri")
          /\ Contains(ref.uri, "template")
          /\ argument.name = "id"
       THEN Completion(Matching(<<"foo", "bar", "baz", "qux">>, argument.value))
       ELSE IF HasAttr(ref, "name") /\ argument.name = "arg1"
       THEN Completion(Matching(<<"default1", "option1">>, argument.value))
       ELSE IF HasAttr(ref, "name") /\ argument.name = "arg2"
       THEN Completion(Matching(<<"default2", "option2">>, argument.value))
       ELSE Completion(<<>>)

\* what the handler function installed by a decorator returns
HandlerResult(cls, base, params) ==
    IF cls = "CompleteRequest"
    THEN [kind |-> "completion", by |-> base, isError |-> FALSE,
          completion |-> IF base = "default" THEN DefaultCompletion
                         ELSE CustomCompletion(params)]
    ELSE IF cls = "CallToolRequest"
    THEN ToolResult(base, params.name)
    ELSE [kind |-> "result", by |-> base, isError |-> FALSE,
          completion |-> [values |-> <<>>, total |-> 0, hasMore |-> FALSE]]

\* capabilities of the lowlevel server: resources is None without a
\* resources/list handler, else ResourcesCapability(subscribe=False, ...)
original_get_capabilities(handlers, resources_changed) ==
    [resources |->
        IF "ListResourcesRequest" \in DOMAIN handlers
        THEN [present |-> TRUE, subscribe |-> FALSE, listChanged |-> resources_changed]
        ELSE [present |-> FALSE, subscribe |-> FALSE, listChanged |-> FALSE]]

patched_get_capabilities_unpatched(handlers, resources_changed) ==
    original_get_capabilities(handlers, resources_changed)

\* _patched_get_capabilities
patched_get_capabilities(handlers, resources_changed) ==
    LET caps == original_get_capabilities(handlers, resources_changed) IN
    IF caps.resources.present
    THEN [caps EXCEPT !.resources.subscribe = TRUE]
    ELSE caps

TransportTypes == {"stdio", "streamable-http", "sse"}

(***************************************************************************)
(* server.py 64-113, 274-290, 441-472: host, port and the transport        *)
(* security settings.                                                      *)
(***************************************************************************)
DefaultHost == "0.0.0.0"
DefaultPort == 8000
Hosts == {"0.0.0.0", "127.0.0.1", "localhost", "192.168.1.5"}
Ports == {8000, 3000}
\* run(host=None), run(port=None)
NoHost == "None"
NoPort == 0

\* __init__(host: str = "0.0.0.0", port: int = 8000): the parameters' values
HostParam(host) == IF host = NoHost THEN DefaultHost ELSE host
PortParam(port) == IF port = NoPort THEN DefaultPort ELSE port

\* final_host = host if host is not None else self.settings.host
FinalHost(host, current) == IF host # NoHost THEN host ELSE current

\* final_port = port if port is not None else self.settings.port
FinalPort(port, current) == IF port # NoPort THEN port ELSE current

LocalHosts == {"127.0.0.1", "localhost", "::1"}

\* settings.transport_security is None
NoSecurity ==
    [present |-> FALSE, enable_dns_rebinding_protection |-> FALSE,
     allowed_hosts |-> <<>>, allowed_origins |-> <<>>]

\* FastMCP.__init__(host=host, port=port): the settings it leaves; it turns
\* the protection on by itself when the host is a localhost name
FastMCP_init(host) ==
    IF host \in LocalHosts
    THEN [present |-> TRUE, enable_dns_rebinding_protection |-> TRUE,
          allowed_hosts |-> <<"127.0.0.1:*", "localhost:*", "[::1]:*">>,
          allowed_origins |-> <<"http://127.0.0.1:*", "http://localhost:*",
                                "http://[::1]:*">>]
    ELSE NoSecurity

apply_dns_rebinding_protection_off(host) ==
    [present |-> TRUE, enable_dns_rebinding_protection |-> FALSE,
     allowed_hosts |-> <<>>, allowed_origins |-> <<>>]

\* MCPServer._apply_dns_rebinding_protection(host)
apply_dns_rebinding_protection(host) ==
    LET localhost_host == IF host \in LocalHosts THEN host ELSE "127.0.0.1" IN
    [present |-> TRUE, enable_dns_rebinding_protection |-> TRUE,
     allowed_hosts |-> <<localhost_host \o ":*", "localhost:*", "127.0.0.1:*", "[::1]:*">>,
     allowed_origins |-> <<"http://" \o localhost_host \o ":*", "http://localhost:*",
                           "http://127.0.0.1:*", "http://[::1]:*">>]

\* transport_security after MCPServer.__init__(host, dns_rebinding_protection)
ConstructedSecurity(host, dns_flag) ==
    IF dns_flag THEN apply_dns_rebinding_protection(host) ELSE FastMCP_init(host)

(***************************************************************************)
(* server.py 502-506, 522-541: the session id of the current request.      *)
(***************************************************************************)
NoValue == "None"
SessionIdHeader == "mcp-session-id"
EmptyHeaders == [k \in {} |-> ""]
\* the headers of the current HTTP request
HeaderSets ==
    {EmptyHeaders,
     [k \in {"content-type"} |-> "application/json"],
     [k \in {"mcp-session-id"} |-> "sess-1"],
     [k \in {"content-type", "mcp-session-id"} |->
        IF k = "content-type" THEN "application/json" ELSE "sess-2"]}

\* what _get_request_context() finds: no request context (LookupError), a
\* context with no HTTP request (stdio), a request object without headers,
\* or an HTTP request with its headers
RequestContexts ==
    {[has_context |-> FALSE, has_request |-> FALSE, has_headers |-> FALSE,
      headers |-> EmptyHeaders],
     [has_context |-> TRUE, has_request |-> FALSE, has_headers |-> FALSE,
      headers |-> EmptyHeaders],
     [has_context |-> TRUE, has_request |-> TRUE, has_headers |-> FALSE,
      headers |-> EmptyHeaders]}
    \cup {[has_context |-> TRUE, has_request |-> TRUE, has_headers |-> TRUE,
           headers |-> h] : h \in HeaderSets}

\* headers.get(name)
headers_get(headers, name) ==
    IF name \in DOMAIN headers THEN headers[name] ELSE NoValue

get_session_id_from_request_unguarded(rc) ==
    IF rc.has_context /\ rc.has_request /\ rc.has_headers
    THEN headers_get(rc.headers, SessionIdHeader)
    ELSE "AttributeError"

\* MCPServer._get_session_id_from_request
get_session_id_from_request(rc) ==
    IF ~rc.has_context THEN NoValue
    ELSE IF ~rc.has_request THEN NoValue
    ELSE IF ~rc.has_headers THEN NoValue
    ELSE headers_get(rc.headers, SessionIdHeader)

(***************************************************************************)
(* server.py 411-426: a request given to a registry entry.  The entry is   *)
(* the handler function or the latest `wrapped` closure around it; each    *)
(* wrapper builds its context when it is called and awaits the pipeline,   *)
(* whose last link awaits the `original` the wrapper closed over.  A       *)
(* request is a record: cls, params, rc and session are the request and    *)
(* its request context, base and wrappers the registry entry it was given  *)
(* to, short the interceptors that answer it themselves, level and pos the *)
(* wrapper and the link it is in.  env is what the call reads from the     *)
(* server while it runs, and env.awaits the places where the call is       *)
(* suspended if it gets there in this step (an interceptor before it       *)
(* forwards, the handler function of a tool, resource or prompt, an        *)
(* interceptor after its call_next returned).                              *)
(***************************************************************************)
\* the await interceptor m makes after `await call_next(context)` returned
After(m) == "after " \o m

\* the places where a step of a request is suspended if it gets there: none,
\* the first interceptor before it forwards, or the second interceptor
\* before it forwards, the handler function and the first interceptor after
\* its call_next returned
AwaitSets == {{}, {"I1"}, {"I2", "handler", After("I1")}}

\* the result slot of a request that has not ended
NoResult ==
    [kind |-> "none", by |-> "none", isError |-> FALSE,
     completion |-> [values |-> <<>>, total |-> 0, hasMore |-> FALSE]]

ShortCircuits_never(m, short) == FALSE

\* interceptor m returns without calling call_next; TelemetryMiddleware
\* always calls it
ShortCircuits(m, short) == m # Telemetry /\ m \in short

LinkAt_reversed(chain, i) == chain[Len(chain) + 1 - i]

\* the i-th link process_request runs: the interceptors in the order added
LinkAt(chain, i) == chain[i]

OriginalBase_current_registry(captured, registered) == registered

\* call_original awaits `original`, the entry wrap_request read from the
\* registry at the wiring, whatever the registry holds now
OriginalBase(captured, registered) == captured

RECURSIVE LowestFree(_, _)
\* the n lowest addresses outside `used`, in ascending order
LowestFree(n, used) ==
    IF n = 0 THEN <<>>
    ELSE LET a == CHOOSE x \in ContextAddrs \ used :
                      \A y \in ContextAddrs \ used : x <= y
         IN <<a>> \o LowestFree(n - 1, used \cup {a})

NewObjects_cached(n, live) == [j \in 1..n |-> 1]

\* ServerMiddlewareContext(...) evaluated n times: n new objects, at
\* addresses no live object has.  Addresses are interchangeable; the
\* allocator is taken to hand out the lowest free ones.
NewObjects(n, live) == LowestFree(n, live)

ServerMiddlewareContext_wiring_transport(obj, message, method, transport, session_id) ==
    [obj |-> obj, message |-> message, method |-> method,
     transport |-> "streamable-http", session_id |-> session_id]

\* ServerMiddlewareContext(message=, method=, timestamp=, transport=, session_id=)
ServerMiddlewareContext(obj, message, method, transport, session_id) ==
    [obj |-> obj, message |-> message, method |-> method,
     transport |-> transport, session_id |-> session_id]

\* the context objects a request holds
ObjectsOf(r) == {r.contexts[j].obj : j \in DOMAIN r.contexts}

RECURSIVE returns(_, _, _, _), leave(_, _, _, _)

\* the result comes back to link i of wrapper k: `await call_next(context)`
\* returns in the interceptor, which returns in turn unless it awaits first.
\* Past the first link process_request and wrapped return: the context of
\* the wrapper is released and the result is that of the call_original of
\* the wrapper around it, or of the call when there is none.
returns(r, k, i, env) ==
    IF k > Len(r.wrappers) THEN [r EXCEPT !.phase = "done", !.level = 0, !.pos = 0]
    ELSE IF i = 0
    THEN returns([r EXCEPT !.contexts = SubSeq(@, 1, Len(@) - 1),
                           !.built_at = SubSeq(@, 1, Len(@) - 1)],
                 k + 1, Len(env.chain), env)
    ELSE IF After(LinkAt(env.chain, i)) \in env.awaits
    THEN [r EXCEPT !.phase = "returning", !.level = k, !.pos = i]
    ELSE leave(r, k, i, env)

\* link i of wrapper k returns the result to the link before it
leave(r, k, i, env) ==
    returns([r EXCEPT !.exited = Append(@, LinkAt(env.chain, i))], k, i - 1, env)

\* the handler function returns its result: to the lowlevel server when the
\* entry has no wrapper, else into the pipeline of the innermost wrapper
handler_returns(r, env) ==
    returns([r EXCEPT !.handler_runs = @ + 1,
                      !.result = HandlerResult(r.cls, r.base, r.params),
                      !.exited = Append(@, r.base)],
            1, Len(env.chain), env)

\* the handler function is called: directly by the lowlevel server when the
\* entry has no wrapper, else by the call_original of the innermost wrapper.
\* It may be suspended when it is the function of a tool, a resource or a
\* prompt, the caller's code; the handlers of server.py 303-340 await nothing
call_handler(r, env) ==
    LET base == IF r.wrappers = <<>> THEN r.base
                ELSE OriginalBase(r.base, env.handlers[r.cls].base)
        r1 == [r EXCEPT !.base = base,
                        !.entered = Append(@, base),
                        !.custom_at_handler = env.custom,
                        !.level = 0,
                        !.pos = 0]
    IN IF /\ "handler" \in env.awaits
          /\ base = "fastmcp"
          /\ r.cls \in {"CallToolRequest", "ReadResourceRequest", "GetPromptRequest"}
       THEN [r1 EXCEPT !.phase = "handler"]
       ELSE handler_returns(r1, env)


RECURSIVE wrapped(_, _, _), process_request(_, _, _, _), forward(_, _, _, _)

\* MiddlewareManager.process_request(context, call_original) of wrapper k
\* reaches link i: the interceptor is entered and, unless it awaits first,
\* goes on; past the last link call_original awaits `original`
process_request(r, k, i, env) ==
    IF i > Len(env.chain) THEN wrapped(r, k - 1, env)
    ELSE LET m == LinkAt(env.chain, i)
             r1 == [r EXCEPT !.entered = Append(@, m), !.level = k, !.pos = i]
         IN IF m \in env.awaits
            THEN [r1 EXCEPT !.phase = "interceptor"]
            ELSE forward(r1, k, i, env)

\* link i of wrapper k, entered, answers itself, and its answer goes back
\* through the links before it, or calls call_next
forward(r, k, i, env) ==
    IF ShortCircuits(LinkAt(env.chain, i), r.short)
    THEN returns([r EXCEPT !.result = [NoResult EXCEPT !.kind = "short",
                                                        !.by = LinkAt(env.chain, i)],
                           !.exited = Append(@, LinkAt(env.chain, i))],
                 k, i - 1, env)
    ELSE process_request(r, k, i + 1, env)

\* wrapped(request) of the k-th wrapper of the entry, the handler function
\* at k = 0: session id and transport are read and the context is built
\* now, then the pipeline is awaited
wrapped(r, k, env) ==
    IF k = 0 THEN call_handler(r, env)
    ELSE LET session_id == get_session_id_from_request(r.rc)
             obj == NewObjects(1, env.live \cup ObjectsOf(r))[1]
             context == ServerMiddlewareContext(obj, r.params, r.wrappers[k],
                                                env.transport, session_id)
         IN process_request([r EXCEPT !.contexts = Append(@, context),
                                      !.built_at = Append(@, env.runs)],
                            k, 1, env)

\* the request as it is when request_handlers[cls](request) is called
NewRequest(cls, params, rc, session, short, env) ==
    [cls |-> cls, params |-> params, rc |-> rc, session |-> session,
     short |-> short,
     runs |-> env.runs, custom |-> env.custom, late |-> cls \in env.late,
     base |-> env.handlers[cls].base, wrappers |-> env.handlers[cls].wrappers,
     custom_at_handler |-> env.custom,
     level |-> Len(env.handlers[cls].wrappers), pos |-> 0, phase |-> "called",
     contexts |-> <<>>, built_at |-> <<>>, entered |-> <<>>, exited |-> <<>>,
     handler_runs |-> 0, result |-> NoResult]

\* a suspended request goes on, up to its next suspension
resume(r, env) ==
    IF r.phase = "interceptor" THEN forward(r, r.level, r.pos, env)
    ELSE IF r.phase = "handler" THEN handler_returns(r, env)
    ELSE leave(r, r.level, r.pos, env)

\* what is seen of a request that has ended
Finished(r) ==
    [cls |-> r.cls, runs |-> r.runs, custom |-> r.custom, late |-> r.late,
     custom_at_handler |-> r.custom_at_handler,
     params |-> r.params, short |-> r.short, wrappers |-> r.wrappers,
     entered |-> r.entered, exited |-> r.exited,
     handler_runs |-> r.handler_runs, result |-> r.result]

VARIABLES
    addr,                   \* id(session) of every constructed session, 0 before
    active_sessions,        \* MiddlewareServerSession._active_sessions
    resource_subscriptions, \* MCPServer._resource_subscriptions
    hist,                   \* history: last subscribe/unsubscribe of (session, uri)
    bc_pc,                  \* notify_resource_updated: "idle", "sending", "done",
                            \* "raised"
    bc_uri,                 \* its argument
    bc_sessions,            \* its list(_active_sessions)
    bc_idx,                 \* index of the session whose send is awaited
    bc_detached,            \* its `subscribers` set object was deleted from the dict
    sent,                   \* send_resource_updated calls of this broadcast, per session
    failed,                 \* sessions whose send raised in this broadcast
    stable,                 \* history: subscribed at the start and ever since
    dropped,                \* history: subscribed, then disconnected before the start
    client_log_level,       \* MCPServer._client_log_level
    last_set_level,         \* history: level of the most recent logging/setLevel
    set_level_return,       \* what the most recent _handle_set_logging_level returned
    lastLog,                \* the latest Context.log call since the last setLevel,
                            \* with the calls it made on sessions
    ctor_middleware,        \* the `middleware` argument of MCPServer.__init__
    middleware_chain,       \* MCPServer.middleware_manager: the interceptors in order
    request_handlers,       \* MCPServer._mcp_server.request_handlers
    transport_type,         \* MCPServer._transport_type
    runs,                   \* history: number of calls of MCPServer.run()
    custom_completion,      \* history: mcp.completion() has registered a handler
    late_registered,        \* history: classes whose handler was registered after
                            \* the latest wiring
    lastDispatch,           \* the latest request given to a registered handler
    lastCaps,               \* the latest capabilities response
    lastElicit,             \* the latest Context.elicit call and its result
    lastSample,             \* the latest Context.sample call and its request
    removed_mid,            \* history: sessions that left the registry during this
                            \* broadcast, before the loop reached them
    unsub_mid,              \* history: sessions that unsubscribed from the URI of this
                            \* broadcast while it was suspended before their turn
    joined_mid,             \* history: sessions registered while this broadcast was
                            \* in progress
    interrupted,            \* history: the session whose send raised outside Exception
                            \* in this broadcast
    lastReq,                \* the latest observed subscribe/unsubscribe request
    ctor_host,              \* history: the `host` argument of MCPServer.__init__
    dns_rebinding_protection, \* MCPServer._dns_rebinding_protection
    settings_host,          \* MCPServer.settings.host
    settings_port,          \* MCPServer.settings.port
    transport_security,     \* MCPServer.settings.transport_security
    lastSessionId,          \* the latest _get_session_id_from_request call
    ctor_args,              \* history: host and port as given to MCPServer.__init__
    lastRun,                \* the latest run() call and what it gave ServerRunner.run
    lastCall,               \* the latest Context.list_roots or send_*_list_changed call
    in_flight               \* the requests inside a registered handler, each with the
                            \* middleware contexts built for it

sessVars == <<addr, active_sessions>>
subVars == <<resource_subscriptions, hist>>
bcVars == <<bc_pc, bc_uri, bc_sessions, bc_idx, bc_detached, sent, failed, stable, dropped,
            removed_mid, unsub_mid, joined_mid, interrupted>>
logVars == <<client_log_level, last_set_level, set_level_return, lastLog>>
mwVars == <<ctor_middleware, middleware_chain, request_handlers, transport_type, runs,
            custom_completion, late_registered, lastDispatch, lastCaps>>
ctxVars == <<lastElicit, lastSample, lastCall>>
obsVars == <<lastReq>>
reqVars == <<in_flight>>
cfgVars == <<ctor_host, dns_rebinding_protection, settings_host, settings_port,
             transport_security, lastSessionId, ctor_args, lastRun>>
vars == <<addr, active_sessions, resource_subscriptions, hist, bc_pc, bc_uri,
          bc_sessions, bc_idx, bc_detached, sent, failed, stable, dropped,
          client_log_level, last_set_level, set_level_return, lastLog,
          ctor_middleware, middleware_chain, request_handlers, transport_type, runs,
          custom_completion, late_registered, lastDispatch, lastCaps, lastElicit,
          lastSample, removed_mid, lastReq, ctor_host, dns_rebinding_protection,
          settings_host, settings_port, transport_security, lastSessionId,
          ctor_args, lastRun, lastCall, in_flight, unsub_mid, joined_mid, interrupted>>

Range(seq) == {seq[i] : i \in DOMAIN seq}

\* MCPServer.__init__ with the given `middleware` argument
Constructed_with(middleware) ==
    /\ ctor_middleware = middleware
    /\ middleware_chain = BuildChain(middleware)
    /\ request_handlers = InitialHandlers
    /\ transport_type = "streamable-http"
    /\ runs = 0
    /\ custom_completion = FALSE
    /\ late_registered = {}
    /\ lastDispatch = <<>>
    /\ lastCaps = <<>>

InitCore ==
    /\ addr = [s \in Sessions |-> 0]
    /\ active_sessions = {}
    /\ resource_subscriptions = EmptyDict
    /\ hist = [s \in Sessions |-> [u \in Uris |-> "never"]]
    /\ bc_pc = "idle"
    /\ bc_uri = "none"
    /\ bc_sessions = <<>>
    /\ bc_idx = 0
    /\ bc_detached = FALSE
    /\ sent = [s \in Sessions |-> 0]
    /\ failed = {}
    /\ stable = {}
    /\ dropped = {}
    /\ client_log_level = DefaultClientLogLevel
    /\ last_set_level = "none"
    /\ set_level_return = "no call"
    /\ lastLog = <<>>
    /\ lastElicit = <<>>
    /\ lastSample = <<>>
    /\ lastCall = <<>>
    /\ in_flight = [slot \in Slots |-> <<>>]
    /\ removed_mid = {}
    /\ unsub_mid = {}
    /\ joined_mid = {}
    /\ interrupted = {}
    /\ lastReq = <<>>

\* MCPServer.__init__ with the given host, port and dns_rebinding_protection,
\* NoHost and NoPort standing for an argument left out
Configured_with(host, port, dns_flag) ==
    /\ ctor_args = [host |-> host, port |-> port]
    /\ ctor_host = HostParam(host)
    /\ dns_rebinding_protection = dns_flag
    /\ settings_host = HostParam(host)
    /\ settings_port = PortParam(port)
    /\ transport_security = ConstructedSecurity(HostParam(host), dns_flag)
    /\ lastSessionId = <<>>
    /\ lastRun = <<>>

\* a server constructed with the default arguments
Init ==
    /\ InitCore
    /\ Constructed_with(<<>>)
    /\ Configured_with(NoHost, NoPort, FALSE)

\* a server constructed with any of the middleware lists
InitMw ==
    /\ InitCore
    /\ \E middleware \in MiddlewareLists : Constructed_with(middleware)
    /\ Configured_with(NoHost, NoPort, FALSE)

\* a server constructed with any host, port and dns_rebinding_protection
InitCfg ==
    /\ InitCore
    /\ Constructed_with(<<>>)
    /\ \E host \in Hosts \cup {NoHost}, port \in Ports \cup {NoPort}, dns_flag \in BOOLEAN :
          Configured_with(host, port, dns_flag)

(***************************************************************************)
(* Session registry (server_session.py, from the specification): a session *)
(* is registered when the transport constructs it and removed when it      *)
(* disconnects.  id(session) is the address of the object: two live        *)
(* objects never share it, a freed object's address may be given to a      *)
(* later object.  A disconnected session is still referenced, hence not    *)
(* freed, while a broadcast in flight holds it in its list.                *)
(***************************************************************************)
Constructed == {s \in Sessions : addr[s] # 0}

\* the sessions something still refers to: the registered ones, those in
\* the list of a broadcast, those of the requests in flight
Referenced ==
    active_sessions \cup (IF bc_pc = "sending" THEN Range(bc_sessions) ELSE {})
        \cup ({in_flight[slot][1].session :
                    slot \in {x \in Slots : in_flight[x] # <<>>}} \ {NoSession})

AddrsInUse == {addr[s] : s \in Referenced}

register(s) ==
    /\ addr[s] = 0
    /\ \A t \in Sessions : t < s => addr[t] # 0
    /\ \E a \in Addrs \ AddrsInUse :
          addr' = [addr EXCEPT ![s] = a]
    /\ active_sessions' = active_sessions \cup {s}
    /\ joined_mid' = IF bc_pc = "sending" THEN joined_mid \cup {s} ELSE joined_mid
    /\ UNCHANGED <<subVars, bc_pc, bc_uri, bc_sessions, bc_idx, bc_detached, sent, failed,
                   stable, dropped, removed_mid, unsub_mid, interrupted, logVars, mwVars,
                   ctxVars, obsVars, cfgVars, reqVars>>

unregister(s) ==
    /\ s \in active_sessions
    /\ active_sessions' = active_sessions \ {s}
    /\ stable' = IF bc_pc = "sending" THEN stable \ {s} ELSE stable
    /\ removed_mid' = IF /\ bc_pc = "sending"
                          /\ \E i \in DOMAIN bc_sessions : i > bc_idx /\ bc_sessions[i] = s
                       THEN removed_mid \cup {s}
                       ELSE removed_mid
    /\ UNCHANGED <<addr, subVars, bc_pc, bc_uri, bc_sessions, bc_idx,
                   bc_detached, sent, failed, dropped, unsub_mid, joined_mid, interrupted,
                   logVars, mwVars, ctxVars, obsVars, cfgVars, reqVars>>

(***************************************************************************)
(* server.py 310-324: resources/subscribe and resources/unsubscribe.       *)
(* session is _current_session(): a live session or None.                  *)
(***************************************************************************)
SessionResolved_any(session) == TRUE

\* `if session:`
SessionResolved(session) == session # NoSession

\* id(session); id(None) is the address of no session
IdOf(session) == IF session = NoSession THEN 0 ELSE addr[session]

\* _handle_subscribe(uri) with session the _current_session()
subscribe_effect(session, uri) ==
    /\ IF SessionResolved(session)
       THEN /\ resource_subscriptions' =
                  SubscribeResult(resource_subscriptions, uri, IdOf(session))
            /\ hist' = IF session \in Sessions
                       THEN [hist EXCEPT ![session][uri] = "sub"]
                       ELSE hist
       ELSE UNCHANGED subVars
    /\ unsub_mid' = IF SessionResolved(session) /\ uri = bc_uri
                    THEN unsub_mid \ {session} ELSE unsub_mid
    /\ UNCHANGED <<bc_pc, bc_uri, bc_sessions, bc_idx, bc_detached, sent, failed,
                   stable, dropped, removed_mid, joined_mid, interrupted>>

\* a resources/subscribe request of a connected session, or with no request
\* context, given to the handler function
handle_subscribe(session, uri) ==
    /\ session \in active_sessions \cup {NoSession}
    /\ subscribe_effect(session, uri)
    /\ UNCHANGED <<sessVars, logVars, mwVars, ctxVars, cfgVars, reqVars>>

\* _handle_unsubscribe(uri) with session the _current_session()
unsubscribe_effect(session, uri) ==
    /\ IF /\ SessionResolved(session)
          /\ ~UnsubscribeRaises(resource_subscriptions, uri, IdOf(session))
       THEN /\ resource_subscriptions' =
                  UnsubscribeResult(resource_subscriptions, uri, IdOf(session))
            /\ hist' = IF session \in Sessions
                       THEN [hist EXCEPT ![session][uri] =
                               IF @ = "never" THEN "never" ELSE "unsub"]
                       ELSE hist
            /\ stable' = IF bc_pc = "sending" /\ uri = bc_uri
                         THEN stable \ {session} ELSE stable
       ELSE UNCHANGED <<subVars, stable>>
    /\ unsub_mid' = IF /\ SessionResolved(session)
                       /\ bc_pc = "sending"
                       /\ uri = bc_uri
                       /\ \E i \in DOMAIN bc_sessions : i > bc_idx /\ bc_sessions[i] = session
                    THEN unsub_mid \cup {session}
                    ELSE unsub_mid
    \* the set object a broadcast in flight holds leaves the dict once emptied
    /\ bc_detached' = (bc_detached \/ (/\ bc_pc = "sending"
                                       /\ uri = bc_uri
                                       /\ uri \in DOMAIN resource_subscriptions
                                       /\ uri \notin DOMAIN resource_subscriptions'))
    /\ UNCHANGED <<bc_pc, bc_uri, bc_sessions, bc_idx, sent, failed,
                   dropped, removed_mid, joined_mid, interrupted>>

\* a resources/unsubscribe request given to the handler function
handle_unsubscribe(session, uri) ==
    /\ session \in active_sessions \cup {NoSession}
    /\ unsubscribe_effect(session, uri)
    /\ UNCHANGED <<sessVars, logVars, mwVars, ctxVars, cfgVars, reqVars>>

(***************************************************************************)
(* server.py 342-362: notify_resource_updated.  The coroutine runs without *)
(* interruption up to its next `await session.send_resource_updated`, so   *)
(* one step goes from one awaited send to the next.                        *)
(***************************************************************************)
SnapshotSource_constructed == Constructed

\* the set list(MiddlewareServerSession._active_sessions) copies
SnapshotSource == active_sessions

\* the orders in which list(a set) may enumerate it
Orders(S) ==
    {f \in [1..Cardinality(S) -> S] : \A i, j \in DOMAIN f : f[i] = f[j] => i = j}

IsSubscriber_any(session, subscribers) == subscribers # {}

\* id(session) in subscribers
IsSubscriber(session, subscribers) == addr[session] \in subscribers

\* first index >= i of a session the loop sends to; Len(list) + 1 when none
RECURSIVE NextTarget(_, _, _)
NextTarget(list, i, subscribers) ==
    IF i > Len(list) THEN i
    ELSE IF IsSubscriber(list[i], subscribers) THEN i
    ELSE NextTarget(list, i + 1, subscribers)

\* the members of the set object `subscribers` refers to
Subscribers ==
    IF bc_detached THEN {} ELSE Lookup(resource_subscriptions, bc_uri)

ExplicitSubscribers(uri) == {s \in Sessions : hist[s][uri] = "sub"}

\* the loop from position i to its next awaited send, or to its end
Advance(list, i, subscribers, counts) ==
    LET j == NextTarget(list, i, subscribers) IN
    IF j > Len(list)
    THEN /\ bc_pc' = "done"
         /\ bc_idx' = 0
         /\ sent' = counts
    ELSE /\ bc_pc' = "sending"
         /\ bc_idx' = j
         /\ sent' = [counts EXCEPT ![list[j]] = @ + 1]

notify_resource_updated(uri) ==
    /\ bc_pc # "sending"
    /\ bc_uri' = uri
    /\ bc_detached' = FALSE
    /\ failed' = {}
    /\ removed_mid' = {}
    /\ unsub_mid' = {}
    /\ joined_mid' = {}
    /\ interrupted' = {}
    /\ stable' = ExplicitSubscribers(uri) \cap active_sessions
    /\ dropped' = ExplicitSubscribers(uri) \ active_sessions
    /\ IF Falsy(resource_subscriptions, uri)
       THEN /\ bc_sessions' = <<>>
            /\ Advance(<<>>, 1, {}, [s \in Sessions |-> 0])
       ELSE \E order \in Orders(SnapshotSource) :
            /\ bc_sessions' = order
            /\ Advance(order, 1, Lookup(resource_subscriptions, uri),
                       [s \in Sessions |-> 0])
    /\ UNCHANGED <<sessVars, subVars, logVars, mwVars, ctxVars, obsVars, cfgVars, reqVars>>

\* what the awaited session.send_resource_updated(uri=uri) does: it returns,
\* it raises an exception of class Exception (the connection is gone), or it
\* raises one outside Exception: asyncio.CancelledError when the awaiting
\* task is cancelled, or another BaseException
SendOutcomes == {"returned", "Exception", "BaseException"}

Propagates_failure(outcome) == outcome # "returned"

\* try: await send ... except Exception: pass -- only an exception outside
\* Exception leaves the loop
Propagates(outcome) == outcome = "BaseException"

IterationBroken_live(list, live) == Cardinality(Range(list)) # Cardinality(live)

\* the loop iterates list(_active_sessions), a copy: a change of the set
\* during the broadcast does not raise in the iteration
IterationBroken(list, live) == FALSE

TableAfterSend_prune(d, uri, sid, outcome) ==
    IF outcome = "returned" THEN d ELSE UnsubscribeResult(d, uri, sid)

\* the table after the awaited send: neither the return, nor `except
\* Exception: pass`, nor an exception that leaves the loop touches it
TableAfterSend(d, uri, sid, outcome) == d

\* the awaited send ends: it returns or raises an Exception (swallowed) and
\* the loop goes on to its next send or to its end, or it raises outside
\* Exception and notify_resource_updated ends by raising
send_returns(outcome) ==
    /\ bc_pc = "sending"
    /\ resource_subscriptions' =
          TableAfterSend(resource_subscriptions, bc_uri, addr[bc_sessions[bc_idx]], outcome)
    /\ failed' = IF outcome = "Exception" THEN failed \cup {bc_sessions[bc_idx]} ELSE failed
    /\ interrupted' = IF outcome = "BaseException" THEN {bc_sessions[bc_idx]} ELSE {}
    /\ IF Propagates(outcome) \/ IterationBroken(bc_sessions, active_sessions)
       THEN /\ bc_pc' = "raised"
            /\ bc_idx' = 0
            /\ sent' = sent
       ELSE Advance(bc_sessions, bc_idx + 1, Subscribers, sent)
    /\ UNCHANGED <<sessVars, hist, bc_uri, bc_sessions, bc_detached,
                   stable, dropped, removed_mid, unsub_mid, joined_mid, logVars, mwVars,
                   ctxVars, obsVars, cfgVars, reqVars>>

(***************************************************************************)
(* server.py 303-305 and context.py 31-60: logging/setLevel, Context.log.  *)
(***************************************************************************)
\* _handle_set_logging_level(level)
set_logging_level_effect(level) ==
    /\ client_log_level' = StoredLevel(client_log_level, level)
    /\ last_set_level' = level
    /\ set_level_return' = "None"
    \* lastLog observes the Context.log calls made since this request
    /\ lastLog' = <<>>

\* a logging/setLevel request of a connected session given to the handler
\* function
handle_set_logging_level(session, level) ==
    /\ session \in active_sessions
    /\ set_logging_level_effect(level)
    /\ UNCHANGED <<sessVars, subVars, bcVars, mwVars, ctxVars, obsVars, cfgVars, reqVars>>

log_stores_level(session, request_id, level, message, logger_name) ==
    /\ session \in active_sessions
    /\ lastLog' = << [session |-> session, request_id |-> request_id, level |-> level,
                      message |-> message, logger_name |-> logger_name,
                      calls |-> << send_log_message(session, level, message,
                                                    logger_name, request_id) >>] >>
    /\ client_log_level' = level
    /\ UNCHANGED <<sessVars, subVars, bcVars, last_set_level, set_level_return, mwVars,
                   ctxVars, obsVars, cfgVars, reqVars>>

\* Context.log on the context of request request_id of session
log(session, request_id, level, message, logger_name) ==
    /\ session \in active_sessions
    /\ LET client_level == client_log_level IN
       lastLog' = << [session |-> session,
                      request_id |-> request_id,
                      level |-> level,
                      message |-> message,
                      logger_name |-> logger_name,
                      calls |-> IF Suppressed(level, client_level)
                                THEN <<>>
                                ELSE << send_log_message(session, level, message,
                                                         logger_name, request_id) >>] >>
    /\ UNCHANGED <<sessVars, subVars, bcVars, client_log_level, last_set_level,
                   set_level_return, mwVars, ctxVars, obsVars, cfgVars, reqVars>>

(***************************************************************************)
(* server.py 441-484, 399-439, 326-340: run(), requests dispatched through *)
(* the handler registry, the capabilities response, mcp.completion().      *)
(***************************************************************************)
\* MCPServer.run(transport, host, port): takes over a host that differs from
\* the settings', sets the transport, wires the pipeline, serves
run(transport, host, port) ==
    /\ runs < MaxRuns
    /\ runs' = runs + 1
    /\ LET final_host == FinalHost(host, settings_host)
           final_port == FinalPort(port, settings_port)
       IN /\ IF final_host # settings_host
             THEN /\ settings_host' = final_host
                  /\ settings_port' = final_port
                  /\ transport_security' =
                        IF dns_rebinding_protection
                        THEN apply_dns_rebinding_protection(final_host)
                        ELSE transport_security
             ELSE UNCHANGED <<settings_host, settings_port, transport_security>>
          \* runner.run(transport=transport, host=final_host, port=final_port)
          /\ lastRun' = << [host |-> host,
                            port |-> port,
                            settings_before |-> [host |-> settings_host,
                                                 port |-> settings_port],
                            transport |-> transport,
                            bound_host |-> final_host,
                            bound_port |-> final_port,
                            security |-> transport_security'] >>
    /\ transport_type' = transport
    /\ request_handlers' = wrap_handlers_with_middleware(request_handlers)
    /\ late_registered' = {}
    /\ UNCHANGED <<sessVars, subVars, bcVars, logVars, ctxVars, obsVars, ctor_middleware,
                   middleware_chain, custom_completion, lastDispatch, lastCaps,
                   ctor_host, dns_rebinding_protection, lastSessionId, ctor_args, reqVars>>

\* _get_session_id_from_request() under the request context rc
resolve_session_id(rc) ==
    /\ lastSessionId' = << [context |-> rc,
                            result |-> get_session_id_from_request(rc)] >>
    /\ UNCHANGED <<sessVars, subVars, bcVars, logVars, mwVars, ctxVars, obsVars,
                   ctor_host, dns_rebinding_protection, settings_host, settings_port,
                   transport_security, ctor_args, lastRun, reqVars>>

\* @mcp.completion(): the decorator stores the function in the registry
register_completion ==
    /\ request_handlers' =
          [request_handlers EXCEPT !["CompleteRequest"] = Handler("custom")]
    /\ custom_completion' = TRUE
    /\ late_registered' = IF runs > 0 THEN late_registered \cup {"CompleteRequest"}
                          ELSE late_registered
    /\ UNCHANGED <<sessVars, subVars, bcVars, logVars, ctxVars, obsVars, cfgVars, reqVars, ctor_middleware,
                   middleware_chain, transport_type, runs, lastDispatch, lastCaps>>

\* the server answers initialize with get_capabilities(...)
get_capabilities(resources_changed) ==
    /\ lastCaps' = << patched_get_capabilities(request_handlers, resources_changed) >>
    /\ UNCHANGED <<sessVars, subVars, bcVars, logVars, ctxVars, obsVars, cfgVars, reqVars, ctor_middleware,
                   middleware_chain, request_handlers, transport_type, runs,
                   custom_completion, late_registered, lastDispatch>>

(***************************************************************************)
(* server.py 411-426 and 303-324: requests given to the handler registry.  *)
(* A step takes a request from one suspension to the next: from the call   *)
(* of the registry entry into the first interceptor that awaits before it  *)
(* forwards, from there to the next one, into a handler function that      *)
(* awaits, into an interceptor that awaits after its call_next returned,   *)
(* or to the end of the call.  Other calls run while a request is          *)
(* suspended.                                                              *)
(***************************************************************************)
\* the context objects of the requests in flight
LiveContexts ==
    UNION {ObjectsOf(in_flight[slot][1]) : slot \in {x \in Slots : in_flight[x] # <<>>}}

\* what a call reads from the server while it runs, and the places where
\* it is suspended if it gets there in this step
Env(awaits) ==
    [chain |-> middleware_chain, transport |-> transport_type,
     handlers |-> request_handlers, live |-> LiveContexts, runs |-> runs,
     custom |-> custom_completion, late |-> late_registered, awaits |-> awaits]

\* the handler functions of server.py 303-324 act on the server in the
\* step in which they run (ran: this step of r called its handler function)
handler_effect(r, ran) ==
    IF ran /\ r.base = "default" /\ r.cls = "SetLevelRequest"
    THEN /\ set_logging_level_effect(r.params.level)
         /\ UNCHANGED <<subVars, bcVars>>
    ELSE IF ran /\ r.base = "default" /\ r.cls = "SubscribeRequest"
    THEN /\ subscribe_effect(r.session, r.params.uri)
         /\ UNCHANGED logVars
    ELSE IF ran /\ r.base = "default" /\ r.cls = "UnsubscribeRequest"
    THEN /\ unsubscribe_effect(r.session, r.params.uri)
         /\ UNCHANGED logVars
    ELSE UNCHANGED <<logVars, subVars, bcVars>>

\* the request of a slot after a step that began with handler_runs = before:
\* the effect of its handler function if that ran in the step, and the
\* request still in flight, or ended when wrapped has returned
settle(slot, before, r) ==
    /\ handler_effect(r, r.handler_runs > before)
    /\ IF r.phase = "done"
       THEN /\ in_flight' = [in_flight EXCEPT ![slot] = <<>>]
            /\ lastDispatch' = << Finished(r) >>
       ELSE in_flight' = [in_flight EXCEPT ![slot] = <<r>>]

\* the lowlevel server calls request_handlers[type(request)](request) under
\* the request context rc, whose session is `session`; the call runs up to
\* its first suspension.  lastDispatch observes the latest request: it is
\* empty until that one has ended.
begin_request(slot, cls, params, rc, session, short, awaits) ==
    /\ in_flight[slot] = <<>>
    /\ cls \in DOMAIN request_handlers
    /\ params \in RequestParams(cls)
    /\ session \in active_sessions \cup {NoSession}
    /\ rc.has_context <=> session # NoSession
    /\ LET new == NewRequest(cls, params, rc, session, short, Env(awaits))
           r == wrapped(new, Len(new.wrappers), Env(awaits))
       IN /\ settle(slot, 0, r)
          /\ r.phase # "done" => lastDispatch' = <<>>
    /\ UNCHANGED <<sessVars, ctxVars, obsVars, cfgVars, ctor_middleware,
                   middleware_chain, request_handlers, transport_type, runs,
                   custom_completion, late_registered, lastCaps>>

\* what a suspended request awaited is there: the interceptor goes on or
\* returns, or the handler function returns; the call runs up to its next
\* suspension
resume_request(slot, awaits) ==
    /\ in_flight[slot] # <<>>
    /\ LET r == resume(in_flight[slot][1], Env(awaits))
       IN /\ settle(slot, in_flight[slot][1].handler_runs, r)
          /\ r.phase # "done" => lastDispatch' = lastDispatch
    /\ UNCHANGED <<sessVars, ctxVars, obsVars, cfgVars, ctor_middleware,
                   middleware_chain, request_handlers, transport_type, runs,
                   custom_completion, late_registered, lastCaps>>

(***************************************************************************)
(* Specifications.                                                         *)
(***************************************************************************)
Register == \E s \in Sessions : register(s)
Unregister == \E s \in Sessions : unregister(s)
Subscribe ==
    \E s \in Sessions \cup {NoSession}, u \in LiveUris :
        handle_subscribe(s, u) /\ UNCHANGED obsVars
Unsubscribe ==
    \E s \in Sessions \cup {NoSession}, u \in LiveUris :
        handle_unsubscribe(s, u) /\ UNCHANGED obsVars
Notify == \E u \in LiveUris : notify_resource_updated(u)
SendReturns == \E outcome \in SendOutcomes : send_returns(outcome)
SetLevel == \E s \in Sessions, l \in SetLevelInputs : handle_set_logging_level(s, l)
Log == \E s \in Sessions, r \in RequestIds, l \in LogLevels, m \in Messages,
          n \in LoggerNames : log(s, r, l, m, n)

\* a subscribe or unsubscribe request as an observer sees it: who asked for
\* what, the table before it, whether the session was subscribed, and
\* whether the handler raised
observe(op, session, uri) ==
    lastReq' = << [op |-> op,
                   session |-> session,
                   uri |-> uri,
                   before |-> resource_subscriptions,
                   was_subscribed |-> IF session \in Sessions
                                      THEN hist[session][uri] = "sub"
                                      ELSE FALSE,
                   raised |-> /\ op = "unsubscribe"
                              /\ SessionResolved(session)
                              /\ UnsubscribeRaises(resource_subscriptions, uri,
                                                   IdOf(session))] >>

SubscribeObserved ==
    \E s \in Sessions \cup {NoSession}, u \in Uris :
        handle_subscribe(s, u) /\ observe("subscribe", s, u)
UnsubscribeObserved ==
    \E s \in Sessions \cup {NoSession}, u \in Uris :
        handle_unsubscribe(s, u) /\ observe("unsubscribe", s, u)

\* sessions and observed requests on the subscription table
NextTbl == Register \/ Unregister \/ SubscribeObserved \/ UnsubscribeObserved
SpecTbl == Init /\ [][NextTbl]_vars

\* sessions, subscriptions and broadcasts of one resource
NextSub == Register \/ Unregister \/ Subscribe \/ Unsubscribe \/ Notify \/ SendReturns
SpecSub == Init /\ [][NextSub]_vars

\* sessions and the log-level gate
NextLog == Register \/ Unregister \/ SetLevel \/ Log
SpecLog == Init /\ [][NextLog]_vars

Run == run("stdio", NoHost, NoPort)
RegisterCompletion == register_completion
\* a request with no request context
NoRequestContext ==
    [has_context |-> FALSE, has_request |-> FALSE, has_headers |-> FALSE,
     headers |-> EmptyHeaders]
\* one request at a time, of any class, answered by any of the interceptors
\* given to the constructor; the completion/complete requests are those for
\* the argument arg1 of a prompt
BeginMw ==
    \E cls \in RequestClasses, short \in SUBSET Range(ctor_middleware),
       awaits \in AwaitSets :
        \E params \in RequestParams(cls) :
            /\ cls = "CompleteRequest" =>
                  params.ref.type = "ref/prompt" /\ params.argument = [name |-> "arg1", value |-> ""]
            /\ begin_request(1, cls, params, NoRequestContext, NoSession, short, awaits)
ResumeMw == \E awaits \in AwaitSets : resume_request(1, awaits)
GetCapabilities == \E c \in BOOLEAN : get_capabilities(c)

\* construction, run(), and requests through the handler registry
NextMw == Run \/ RegisterCompletion \/ BeginMw \/ ResumeMw
SpecMw == InitMw /\ [][NextMw]_vars

\* a server constructed with no interceptor or with one
InitCompl ==
    /\ InitCore
    /\ \E middleware \in {<<>>, <<"I1">>} : Constructed_with(middleware)
    /\ Configured_with(NoHost, NoPort, FALSE)
\* a completion/complete request of any reference and argument
BeginCompl ==
    \E short \in SUBSET {"I1"}, awaits \in SUBSET {"I1"} :
        \E params \in RequestParams("CompleteRequest") :
            begin_request(1, "CompleteRequest", params, NoRequestContext, NoSession,
                          short, awaits)

\* run(), mcp.completion() and completion/complete requests
NextCompl == Run \/ RegisterCompletion \/ BeginCompl \/ ResumeMw
SpecCompl == InitCompl /\ [][NextCompl]_vars

RunAny == \E t \in TransportTypes : run(t, NoHost, NoPort)

\* run() on any transport, mcp.completion() and capabilities responses
NextCaps == RunAny \/ RegisterCompletion \/ GetCapabilities
SpecCaps == InitMw /\ [][NextCaps]_vars

RunConfigured ==
    \E t \in TransportTypes, host \in Hosts \cup {NoHost}, port \in Ports \cup {NoPort} :
        run(t, host, port)
ResolveSessionId == \E rc \in RequestContexts : resolve_session_id(rc)

\* construction with any host and flag, run() with any host, session ids
NextCfg == RunConfigured \/ ResolveSessionId
SpecCfg == InitCfg /\ [][NextCfg]_vars

TypeOK ==
    /\ addr \in [Sessions -> 0..MaxAddrs]
    /\ active_sessions \subseteq Constructed
    /\ DOMAIN resource_subscriptions \subseteq Uris
    /\ \A u \in DOMAIN resource_subscriptions : resource_subscriptions[u] \subseteq Addrs
    /\ bc_pc \in {"idle", "sending", "done", "raised"}
    /\ bc_pc = "sending" => bc_idx \in DOMAIN bc_sessions
    /\ client_log_level \in SetLevelInputs

(***************************************************************************)
(* Properties of the subscription table and of broadcasts (SpecSub).       *)
(***************************************************************************)
\* this step starts a send_resource_updated call on session s
SendTo(s) ==
    /\ bc_pc' = "sending"
    /\ bc_sessions'[bc_idx'] = s
    /\ bc_pc = "sending" => bc_idx' # bc_idx

\* C1: when a notify_resource_updated(u) has returned, every session that was
\* subscribed to u from its start on (no unsubscribe, no disconnect) got
\* exactly one send, and no session that never subscribed to u got one.
C1_SubscribeNotifyExactlyOne ==
    bc_pc = "done" =>
        /\ \A s \in stable : sent[s] = 1
        /\ \A t \in Sessions : hist[t][bc_uri] = "never" => sent[t] = 0

\* C2: no send_resource_updated(u) call is started on a session whose last
\* request about u was an unsubscribe that followed a subscribe.
C2_NoSendAfterUnsubscribe ==
    [][\A s \in Sessions : SendTo(s) => hist[s][bc_uri'] # "unsub"]_vars

\* a broadcast had a session that had unsubscribed in its list, skipped it and
\* sent to another one
C2_Witness ==
    /\ bc_pc = "done"
    /\ \E s \in Range(bc_sessions) :
          /\ hist[s][bc_uri] = "unsub"
          /\ sent[s] = 0
          /\ \E t \in Sessions : sent[t] = 1

\* C3: a notify_resource_updated(u) that started after a subscriber s1 of u
\* had disconnected sends once to every subscriber s2 that stays, and never
\* to s1.
C3_DroppedSessionGetsNone ==
    bc_pc = "done" =>
        \A s1 \in dropped, s2 \in stable : sent[s2] = 1 /\ sent[s1] = 0

C3_Witness ==
    /\ bc_pc = "done"
    /\ dropped # {}
    /\ stable # {}
    /\ \A s1 \in dropped : addr[s1] \in Lookup(resource_subscriptions, bc_uri)

\* C4: with A the only subscriber of u, a notify(u) while A is registered
\* sends once to A; a notify(u) after A disconnected sends nothing and the
\* table has no entry for u.
C4_DisconnectRemovesEntry ==
    bc_pc = "done" =>
        /\ \A a \in Sessions :
              (stable = {a} /\ ExplicitSubscribers(bc_uri) = {a}) => sent[a] = 1
        /\ \A a \in Sessions :
              (dropped = {a} /\ ExplicitSubscribers(bc_uri) = {a}) =>
                  /\ \A s \in Sessions : sent[s] = 0
                  /\ bc_uri \notin DOMAIN resource_subscriptions

\* C5: an identity is in the subscriber set of u only if it is that of a
\* session which subscribed to u and has neither unsubscribed from u nor
\* disconnected since.
C5_OnlyExplicitSubscribers ==
    \A u \in DOMAIN resource_subscriptions :
        \A a \in resource_subscriptions[u] :
            \E s \in active_sessions : addr[s] = a /\ hist[s][u] = "sub"

(***************************************************************************)
(* Properties of the log-level gate (SpecLog).                             *)
(***************************************************************************)
\* the eight levels, lowest severity first
LevelSeq ==
    <<"debug", "info", "notice", "warning", "error", "critical", "alert", "emergency">>

\* l1 < l2 in the order of the eight levels
Below(l1, l2) ==
    \E i, j \in DOMAIN LevelSeq : LevelSeq[i] = l1 /\ LevelSeq[j] = l2 /\ i < j

\* C6: with the client level set to L2, a Context.log at a level below L2
\* makes no send_log_message call and one at L2 or above makes exactly one.
C6_LevelFiltering ==
    \A i \in DOMAIN lastLog :
        last_set_level \in Range(LevelSeq) =>
            Len(lastLog[i].calls) =
                IF Below(lastLog[i].level, last_set_level) THEN 0 ELSE 1

C6_Witness ==
    /\ last_set_level = "warning"
    /\ \E i \in DOMAIN lastLog :
          lastLog[i].level = "notice" /\ lastLog[i].calls = <<>>

\* C7: the client level of a fresh server is "debug" and stays so until a
\* logging/setLevel is handled; until then every Context.log sends once.
C7_DefaultSendsAll ==
    last_set_level = "none" =>
        /\ client_log_level = "debug"
        /\ \A i \in DOMAIN lastLog : Len(lastLog[i].calls) = 1

C7_Witness ==
    /\ last_set_level = "none"
    /\ \E i \in DOMAIN lastLog :
          lastLog[i].level = "debug" /\ Len(lastLog[i].calls) = 1

\* C8: the stored level is that of the most recent logging/setLevel, whatever
\* the level before, the handler returns nothing, and every later
\* Context.log is filtered against that level.
C8_LastSetLevelWins ==
    last_set_level # "none" =>
        /\ client_log_level = last_set_level
        /\ set_level_return = "None"
        /\ \A i \in DOMAIN lastLog :
              /\ Below(lastLog[i].level, last_set_level) => lastLog[i].calls = <<>>
              /\ ~Below(lastLog[i].level, last_set_level) =>
                    /\ Len(lastLog[i].calls) = 1
                    /\ lastLog[i].calls[1].level = lastLog[i].level

\* setLevel(warning), then log(error, "y") sent one notification of level error
C8_Witness ==
    /\ last_set_level = "warning"
    /\ \E i \in DOMAIN lastLog :
          /\ lastLog[i].level = "error"
          /\ lastLog[i].message = "y"
          /\ Len(lastLog[i].calls) = 1
          /\ lastLog[i].calls[1].level = "error"
          /\ lastLog[i].calls[1].data = "y"

\* the levels at which a Context.log on a request of session t sends
EmittedLevels(t) == {l \in LogLevels : ~Suppressed(l, client_log_level)}

\* C9: a logging/setLevel handled for connection s leaves unchanged which
\* levels are sent on every other connection.
C9_GatePerConnection ==
    [][\A s \in Sessions, l \in SetLevelInputs :
          handle_set_logging_level(s, l) =>
              \A t \in active_sessions \ {s} : EmittedLevels(t)' = EmittedLevels(t)]_vars

\* C10: a suppressed Context.log makes no call; any other makes exactly one
\* send_log_message call, on the session of its request, with the level, the
\* message as data, the logger name and the id of its request.
C10_LogCallArguments ==
    \A i \in DOMAIN lastLog :
        LET r == lastLog[i] IN
        IF Below(r.level, client_log_level)
        THEN r.calls = <<>>
        ELSE r.calls = << [on |-> r.session,
                           level |-> r.level,
                           data |-> r.message,
                           logger |-> r.logger_name,
                           related_request_id |-> r.request_id] >>

C10_Witness ==
    \E i \in DOMAIN lastLog :
        /\ lastLog[i].logger_name = "my.logger"
        /\ lastLog[i].level = "warning"
        /\ Len(lastLog[i].calls) = 1
        /\ lastLog[i].calls[1].logger = "my.logger"
        /\ lastLog[i].calls[1].related_request_id = lastLog[i].request_id

(***************************************************************************)
(* Properties of the middleware pipeline and of the handler registry       *)
(* (SpecMw, SpecCaps, SpecCompl).                                          *)
(***************************************************************************)
RECURSIVE Repeat(_, _)
\* n copies of seq, one after the other
Repeat(seq, n) == IF n = 0 THEN <<>> ELSE seq \o Repeat(seq, n - 1)

IsUserEntry(x) == x # Telemetry
\* the entries of a trace other than the built-in interceptor's
UserPart(trace) == SelectSeq(trace, IsUserEntry)

HandlerNames == {"fastmcp", "default", "custom"}

\* C11: with interceptors I1, I2 added in that order, in every pass of a
\* request through the pipeline: if I1 returns without calling next, neither
\* I2 nor the handler runs; if nobody short-circuits, I1 is entered, then I2,
\* then the handler, and the handler's result comes back through I2, then I1.
C11_ChainOrder ==
    \A i \in DOMAIN lastDispatch :
        LET d == lastDispatch[i]
            n == Len(d.wrappers)
        IN (ctor_middleware = <<"I1", "I2">> /\ n >= 1) =>
              /\ "I1" \in d.short =>
                    /\ UserPart(d.entered) = <<"I1">>
                    /\ d.handler_runs = 0
                    /\ d.result.by = "I1"
              /\ d.short = {} =>
                    /\ \E t \in HandlerNames :
                          /\ UserPart(d.entered) = Repeat(<<"I1", "I2">>, n) \o <<t>>
                          /\ UserPart(d.exited) = <<t>> \o Repeat(<<"I2", "I1">>, n)
                          /\ d.result.by = t
                    /\ d.handler_runs = 1

C11_Witness ==
    \E i \in DOMAIN lastDispatch :
        /\ ctor_middleware = <<"I1", "I2">>
        /\ lastDispatch[i].short = {}
        /\ lastDispatch[i].entered = <<Telemetry, "I1", "I2", "fastmcp">>
        /\ lastDispatch[i].exited = <<"fastmcp", "I2", "I1", Telemetry>>

\* the first position of the chain whose interceptor short-circuits, 0 if none
FirstShort(chain, short) ==
    IF \E j \in DOMAIN chain : chain[j] \in short
    THEN CHOOSE j \in DOMAIN chain :
            /\ chain[j] \in short
            /\ \A k \in 1..(j - 1) : chain[k] \notin short
    ELSE 0

Occurrences(trace, x) == Cardinality({j \in DOMAIN trace : trace[j] = x})

\* C12: for every request through a wrapped handler, either the handler
\* function runs exactly once, or an interceptor short-circuited, the handler
\* runs zero times and exactly the interceptors up to that one were entered.
C12_HandlerAtMostOnce ==
    \A i \in DOMAIN lastDispatch :
        LET d == lastDispatch[i]
            j == FirstShort(middleware_chain, d.short)
        IN d.wrappers # <<>> =>
              IF j = 0
              THEN /\ d.handler_runs = 1
                   /\ \A m \in Range(middleware_chain) :
                         Occurrences(d.entered, m) = Len(d.wrappers)
                   /\ \A t \in HandlerNames : Occurrences(d.entered, t) <= 1
              ELSE /\ d.handler_runs = 0
                   /\ d.entered = SubSeq(middleware_chain, 1, j)
                   /\ \A t \in HandlerNames : Occurrences(d.entered, t) = 0

C12_Witness ==
    \E i \in DOMAIN lastDispatch :
        /\ lastDispatch[i].short = {"I2"}
        /\ lastDispatch[i].entered = <<Telemetry, "I1", "I2">>
        /\ lastDispatch[i].handler_runs = 0

\* C13: the chain is the built-in telemetry interceptor followed by the
\* constructor's middleware in its order, also when none was given, and the
\* telemetry interceptor of a wrapped handler always forwards to the next link.
C13_TelemetryFirst ==
    /\ middleware_chain = <<Telemetry>> \o ctor_middleware
    /\ \A i \in DOMAIN lastDispatch :
          lastDispatch[i].wrappers # <<>> =>
              /\ lastDispatch[i].entered[1] = Telemetry
              /\ Len(lastDispatch[i].entered) >= 2
              /\ lastDispatch[i].result.by # Telemetry

C13_Witness ==
    /\ ctor_middleware = <<>>
    /\ \E i \in DOMAIN lastDispatch :
          lastDispatch[i].entered = <<Telemetry, "default">>

\* the ten methods the pipeline is bound to
TenMethods ==
    {"tools/call", "resources/read", "resources/list", "prompts/get",
     "prompts/list", "tools/list", "logging/setLevel", "resources/subscribe",
     "resources/unsubscribe", "completion/complete"}

\* some interceptor was entered
PipelineRan(d) == \E j \in DOMAIN d.entered : d.entered[j] \notin HandlerNames

\* C14 as stated: after the wiring, a request passes through the pipeline
\* if and only if its method is one of the ten.
C14_WiredIffTenMethods ==
    \A i \in DOMAIN lastDispatch :
        lastDispatch[i].runs >= 1 =>
            (PipelineRan(lastDispatch[i]) <=> MethodOf(lastDispatch[i].cls) \in TenMethods)

\* C14, amended: after the wiring, a request passes through the pipeline if
\* and only if its method is one of the ten and its handler was not
\* registered after the latest wiring; any other request reaches its handler
\* with no interceptor entered.
C14_WiredIffTenMethodsAndNotLate ==
    \A i \in DOMAIN lastDispatch :
        LET d == lastDispatch[i] IN
        d.runs >= 1 =>
            /\ PipelineRan(d) <=> (MethodOf(d.cls) \in TenMethods /\ ~d.late)
            /\ ~PipelineRan(d) => (Len(d.entered) = 1 /\ d.handler_runs = 1)

C14_Witness ==
    \E i \in DOMAIN lastDispatch :
        /\ lastDispatch[i].runs >= 1
        /\ lastDispatch[i].cls = "CompleteRequest"
        /\ ~lastDispatch[i].late
        /\ lastDispatch[i].custom
        /\ PipelineRan(lastDispatch[i])

\* C15: over the whole life of the server, repeated run() included, every
\* wired handler has exactly one wrapper once wired, and no interceptor is
\* entered more than once for one request.
C15_WrappedOnce ==
    /\ \A cls \in DOMAIN request_handlers : Len(request_handlers[cls].wrappers) <= 1
    /\ \A i \in DOMAIN lastDispatch :
          \A m \in Range(middleware_chain) :
              Occurrences(lastDispatch[i].entered, m) <= 1

\* C16: every capabilities response reports resources.subscribe = true.
C16_SubscribeAdvertised ==
    \A i \in DOMAIN lastCaps :
        /\ lastCaps[i].resources.present
        /\ lastCaps[i].resources.subscribe = TRUE

C16_Witness ==
    \E i \in DOMAIN lastCaps :
        lastCaps[i].resources.subscribe /\ ~lastCaps[i].resources.listChanged

\* the empty completion
IsEmptyCompletion(c) == c.values = <<>> /\ c.total = 0 /\ c.hasMore = FALSE

\* C17 as stated: a completion/complete request whose handler runs returns
\* the empty completion for every reference and argument while no handler
\* was registered with mcp.completion(); once one is registered, its result
\* is returned and the default handler does not run.
C17_DefaultCompletionEmpty ==
    \A i \in DOMAIN lastDispatch :
        LET d == lastDispatch[i] IN
        (d.cls = "CompleteRequest" /\ d.handler_runs = 1) =>
            IF d.custom_at_handler
            THEN /\ d.result.by = "custom"
                 /\ Occurrences(d.entered, "default") = 0
                 /\ d.result.completion = CustomCompletion(d.params)
            ELSE /\ d.result.by = "default"
                 /\ IsEmptyCompletion(d.result.completion)

\* C17, amended: a completion/complete request given to the registry while
\* no handler was registered with mcp.completion() returns, when its
\* handler runs, the empty completion for every reference and argument,
\* also when a handler is registered while the request is in flight; a
\* request given to the registry after the registration is returned the
\* registered handler's result and the default handler does not run for it.
C17_CompletionOfHandlerAtDispatch ==
    \A i \in DOMAIN lastDispatch :
        LET d == lastDispatch[i] IN
        (d.cls = "CompleteRequest" /\ d.handler_runs = 1) =>
            IF d.custom
            THEN /\ d.result.by = "custom"
                 /\ Occurrences(d.entered, "default") = 0
                 /\ d.result.completion = CustomCompletion(d.params)
            ELSE /\ d.result.by = "default"
                 /\ Occurrences(d.entered, "custom") = 0
                 /\ IsEmptyCompletion(d.result.completion)

\* a request was suspended in I1 when mcp.completion() registered a handler
\* and ended in the default handler; the registered handler would have
\* answered it with two values
C17_Witness ==
    \E i \in DOMAIN lastDispatch :
        /\ lastDispatch[i].cls = "CompleteRequest"
        /\ ~lastDispatch[i].custom
        /\ lastDispatch[i].custom_at_handler
        /\ lastDispatch[i].params.ref.type = "ref/prompt"
        /\ lastDispatch[i].params.argument = [name |-> "arg2", value |-> ""]
        /\ CustomCompletion(lastDispatch[i].params).values = <<"default2", "option2">>
        /\ lastDispatch[i].entered = <<Telemetry, "I1", "default">>
        /\ lastDispatch[i].result.by = "default"
        /\ lastDispatch[i].result.completion.values = <<>>

(***************************************************************************)
(* Context facade: elicit and sample (context.py).  A call of the facade   *)
(* is two steps: up to the awaited call on the session, and from its       *)
(* return on; other steps run in between.                                  *)
(***************************************************************************)
MaxMessages == 2

ElicitNames == {"x", "Bob"}
ElicitAges == {5, 7}
ElicitActions == {"accept", "decline", "cancel"}

\* a declared field: its type and its default, if it has one
FieldWithDefault(type, value) == [type |-> type, has_default |-> TRUE, default |-> value]
RequiredStr == [type |-> "str", has_default |-> FALSE, default |-> ""]

\* conformance_server.py: @dataclass class UserInput
UserInput ==
    [kind |-> "dataclass", name |-> "UserInput",
     fields |-> [name |-> FieldWithDefault("str", "Anonymous"),
                 age |-> FieldWithDefault("int", 0)]]

\* a dataclass whose first field has no default
RequiredInput ==
    [kind |-> "dataclass", name |-> "RequiredInput",
     fields |-> [name |-> RequiredStr,
                 age |-> FieldWithDefault("int", 0)]]

\* a pydantic model given directly as the schema
UserInputModel ==
    [kind |-> "model", name |-> "UserInputModel",
     fields |-> [name |-> FieldWithDefault("str", "Anonymous"),
                 age |-> FieldWithDefault("int", 0)]]

ElicitSchemas == <<UserInput, RequiredInput, UserInputModel>>

NoSchema == [kind |-> "None", name |-> "None", fields |-> UserInput.fields]

\* the content of the client's answer: which fields it carries, and their values
ElicitContents ==
    {[name |-> [has |-> hn, v |-> n], age |-> [has |-> ha, v |-> a]] :
        hn \in BOOLEAN, n \in ElicitNames, ha \in BOOLEAN, a \in ElicitAges}

NoData == [cls |-> "None", values |-> [name |-> "", age |-> 0]]

dataclass_to_model_required(schema) ==
    [kind |-> "model",
     name |-> schema.name \o "ElicitationModel",
     fields |-> [f \in DOMAIN schema.fields |->
                    [schema.fields[f] EXCEPT !.has_default = FALSE]]]

\* Context._dataclass_to_model: one model field per dataclass field, with the
\* field's type and its default, or required when it has none
dataclass_to_model(schema) ==
    [kind |-> "model",
     name |-> schema.name \o "ElicitationModel",
     fields |-> [f \in DOMAIN schema.fields |->
                    [type |-> schema.fields[f].type,
                     has_default |-> schema.fields[f].has_default,
                     default |-> schema.fields[f].default]]]

\* Context._coerce_schema: <<schema_model, dataclass_schema>>
coerce_schema(schema) ==
    IF schema.kind = "dataclass"
    THEN <<dataclass_to_model(schema), schema>>
    ELSE <<schema, NoSchema>>

\* pydantic validation of the content against the model: omitted fields take
\* the model's defaults
model_validate(model, content) ==
    [cls |-> model.name,
     values |-> [f \in DOMAIN model.fields |->
                    IF content[f].has THEN content[f].v ELSE model.fields[f].default]]

ValidationFails(model, content) ==
    \E f \in DOMAIN model.fields : ~content[f].has /\ ~model.fields[f].has_default

\* FastMCP Context.elicit: the client's answer turned into an ElicitationResult
super_elicit(schema_model, action, content) ==
    IF action = "accept"
    THEN IF ValidationFails(schema_model, content)
         THEN [action |-> "ValidationError", has_data |-> FALSE, data |-> NoData]
         ELSE [action |-> "accept", has_data |-> TRUE,
               data |-> model_validate(schema_model, content)]
    ELSE [action |-> action, has_data |-> FALSE, data |-> NoData]

model_dump(instance) == instance.values

\* dataclass_schema(**kwargs)
construct_dataclass(dataclass_schema, kwargs) ==
    [cls |-> dataclass_schema.name, values |-> kwargs]

should_convert_any_action(dataclass_schema, result) == dataclass_schema # NoSchema

\* the condition of the back-conversion
should_convert(dataclass_schema, result) ==
    dataclass_schema # NoSchema /\ result.action = "accept"

\* what the awaited call on the session does: the client answers, or the
\* call raises because the client timed out or the connection is closed
RoundTrips == {"ok", "timeout", "closed"}
NoException == "None"

elicit_round_trip_retry(trip) ==
    [requests |-> IF trip = "ok" THEN 1 ELSE 2,
     raised |-> IF trip = "ok" THEN NoException ELSE trip]

\* `result = await super().elicit(message=message, schema=schema_model)`: one
\* call, in no loop, and nothing catches what it raises
elicit_round_trip(trip) ==
    [requests |-> 1, raised |-> IF trip = "ok" THEN NoException ELSE trip]

\* no result: the call ended with the exception
Raised == [action |-> "raised", has_data |-> FALSE, data |-> NoData]

\* no answer yet
NoContent == [name |-> [has |-> FALSE, v |-> ""], age |-> [has |-> FALSE, v |-> 0]]
Pending == [action |-> "pending", has_data |-> FALSE, data |-> NoData]

\* Context.elicit up to `await super().elicit(...)`: the schema is coerced
\* and the request is sent; schema_model and dataclass_schema are the locals
\* of the suspended call
elicit_requested(schema) ==
    LET coerced == coerce_schema(schema)
    IN [schema |-> schema.name,
        schema_model |-> coerced[1],
        dataclass_schema |-> coerced[2],
        requested |-> coerced[1].name,
        requests |-> 1,
        ended |-> FALSE,
        answer |-> "none",
        content |-> NoContent,
        trip |-> "pending",
        raised |-> NoException,
        conversions |-> 0,
        result |-> Pending]

\* Context.elicit from the await on: the round trip raises, or the client's
\* answer, action and content, is turned into the result and, for a
\* dataclass schema and an accept, converted back
elicit_answered(call, trip, action, content) ==
    LET round_trip == elicit_round_trip(trip)
        result == IF round_trip.raised = NoException
                  THEN super_elicit(call.schema_model, action, content)
                  ELSE Raised
        convert == /\ round_trip.raised = NoException
                   /\ should_convert(call.dataclass_schema, result)
    IN [call EXCEPT
          !.ended = TRUE,
          !.answer = IF trip = "ok" THEN action ELSE "none",
          !.content = content,
          !.trip = trip,
          !.requests = round_trip.requests,
          !.raised = round_trip.raised,
          !.conversions = IF convert THEN 1 ELSE 0,
          !.result = IF convert
                     THEN [result EXCEPT
                             !.data = construct_dataclass(call.dataclass_schema,
                                                          model_dump(result.data))]
                     ELSE result]

\* a handler calls ctx.elicit(message, schema): the call is suspended on the
\* request to the client.  lastElicit observes the latest call.
elicit(schema) ==
    /\ lastElicit' = << elicit_requested(schema) >>
    /\ UNCHANGED <<sessVars, subVars, bcVars, logVars, mwVars, obsVars, cfgVars, reqVars, lastSample,
                   lastCall>>

\* the round trip of the latest elicit call ends and the call goes on
elicit_returns(trip, action, content) ==
    /\ lastElicit # <<>>
    /\ ~lastElicit[1].ended
    /\ lastElicit' = << elicit_answered(lastElicit[1], trip, action, content) >>
    /\ UNCHANGED <<sessVars, subVars, bcVars, logVars, mwVars, obsVars, cfgVars, reqVars, lastSample,
                   lastCall>>

\* sampling prompts: plain text and fully specified messages
PlainText(text) == [kind |-> "str", role |-> "None", text |-> text]
SamplingMessage(role, text) == [kind |-> "SamplingMessage", role |-> role, text |-> text]

\* Context._text_message
text_message(text) == SamplingMessage("user", text)

SampleItems ==
    {PlainText("hello"), SamplingMessage("user", "hi"), SamplingMessage("assistant", "ok")}

RECURSIVE SeqsUpTo(_, _)
SeqsUpTo(S, n) ==
    IF n = 0 THEN {<<>>}
    ELSE LET shorter == SeqsUpTo(S, n - 1)
         IN shorter \cup {Append(q, x) : q \in shorter, x \in S}

\* the values of the messages argument: one item, or a sequence of items
SampleInputs ==
    {[shape |-> "single", items |-> <<x>>] : x \in SampleItems}
    \cup {[shape |-> "sequence", items |-> q] : q \in SeqsUpTo(SampleItems, MaxMessages)}

DefaultMaxTokens == 512

\* Context.sample: the arguments of session.create_message
create_message_args(messages, max_tokens, request_id) ==
    [messages |-> messages,
     max_tokens |-> max_tokens,
     related_request_id |-> request_id]

\* `result = await self.session.create_message(...)`; `return result`: one
\* call, in no loop, and nothing catches what it raises
sample_round_trip(trip) ==
    [requests |-> 1, raised |-> IF trip = "ok" THEN NoException ELSE trip]

\* Context.sample up to `await self.session.create_message(...)`: the
\* request is sent and the call is suspended.  lastSample observes the
\* latest call.
sample(messages, request_id) ==
    /\ lastSample' = << [input |-> messages,
                         call |-> create_message_args(messages, DefaultMaxTokens,
                                                      request_id),
                         trip |-> "pending",
                         requests |-> 1,
                         raised |-> NoException,
                         ended |-> FALSE] >>
    /\ UNCHANGED <<sessVars, subVars, bcVars, logVars, mwVars, obsVars, cfgVars, reqVars, lastElicit,
                   lastCall>>

\* the round trip of the latest sample call ends: its result is returned,
\* or what it raised goes to the caller
sample_returns(trip) ==
    /\ lastSample # <<>>
    /\ ~lastSample[1].ended
    /\ lastSample' = << [lastSample[1] EXCEPT
                           !.trip = trip,
                           !.requests = sample_round_trip(trip).requests,
                           !.raised = sample_round_trip(trip).raised,
                           !.ended = TRUE] >>
    /\ UNCHANGED <<sessVars, subVars, bcVars, logVars, mwVars, obsVars, cfgVars, reqVars, lastElicit,
                   lastCall>>

\* the roots a client may report
RootLists == {<<>>, <<"file:///home/user/project">>}

\* `result = await self.session.list_roots()`; `return result.roots`
list_roots_round_trip(trip) ==
    [requests |-> 1, raised |-> IF trip = "ok" THEN NoException ELSE trip]

\* a call on the session that has not returned
CallPending(op) ==
    [op |-> op, trip |-> "pending", requests |-> 1, raised |-> NoException,
     returned |-> <<>>, ended |-> FALSE]

\* Context.list_roots up to `await self.session.list_roots()`.  lastCall
\* observes the latest list_roots or send_*_list_changed call.
list_roots ==
    /\ lastCall' = << CallPending("list_roots") >>
    /\ UNCHANGED <<sessVars, subVars, bcVars, logVars, mwVars, obsVars, cfgVars, reqVars, lastElicit,
                   lastSample>>

\* the round trip of the latest list_roots call ends; roots is the client's
\* answer when it succeeds
list_roots_returns(trip, roots) ==
    /\ lastCall # <<>>
    /\ lastCall[1].op = "list_roots"
    /\ ~lastCall[1].ended
    /\ lastCall' = << [lastCall[1] EXCEPT
                         !.trip = trip,
                         !.requests = list_roots_round_trip(trip).requests,
                         !.raised = list_roots_round_trip(trip).raised,
                         !.returned = IF list_roots_round_trip(trip).raised = NoException
                                      THEN roots ELSE <<>>,
                         !.ended = TRUE] >>
    /\ UNCHANGED <<sessVars, subVars, bcVars, logVars, mwVars, obsVars, cfgVars, reqVars, lastElicit,
                   lastSample>>

ListChangedKinds == {"tool", "resource", "prompt"}

\* Context.send_tool_list_changed, send_resource_list_changed and
\* send_prompt_list_changed up to the awaited send on the session
send_list_changed(kind) ==
    /\ lastCall' = << CallPending("send_" \o kind \o "_list_changed") >>
    /\ UNCHANGED <<sessVars, subVars, bcVars, logVars, mwVars, obsVars, cfgVars, reqVars, lastElicit,
                   lastSample>>

\* the send of the latest list-changed call returns or raises
send_list_changed_returns(ok) ==
    /\ lastCall # <<>>
    /\ lastCall[1].op # "list_roots"
    /\ ~lastCall[1].ended
    /\ lastCall' = << [lastCall[1] EXCEPT
                         !.trip = IF ok THEN "ok" ELSE "closed",
                         !.raised = IF ok THEN NoException ELSE "closed",
                         !.ended = TRUE] >>
    /\ UNCHANGED <<sessVars, subVars, bcVars, logVars, mwVars, obsVars, cfgVars, reqVars, lastElicit,
                   lastSample>>

Elicit == \E k \in DOMAIN ElicitSchemas : elicit(ElicitSchemas[k])
ElicitReturns ==
    \E action \in ElicitActions, content \in ElicitContents :
        elicit_returns("ok", action, content)
Sample ==
    \E messages \in SampleInputs, request_id \in RequestIds :
        sample(messages, request_id)
SampleReturns == sample_returns("ok")

\* elicit and sample calls whose round trip succeeds
NextCtx == Elicit \/ ElicitReturns \/ Sample \/ SampleReturns

SpecCtx == Init /\ [][NextCtx]_vars

\* C18: elicit with the dataclass UserInput (name: str = "Anonymous",
\* age: int = 0) and an accept answer yields data that is a UserInput whose
\* fields are the answer's values, a field the answer omits taking its
\* declared default.
C18_DataclassRoundTrip ==
    \A i \in DOMAIN lastElicit :
        LET e == lastElicit[i] IN
        (e.schema = "UserInput" /\ e.answer = "accept") =>
            /\ e.result.action = "accept"
            /\ e.result.has_data
            /\ e.result.data.cls = "UserInput"
            /\ e.result.data.values.name =
                  (IF e.content.name.has THEN e.content.name.v ELSE "Anonymous")
            /\ e.result.data.values.age =
                  (IF e.content.age.has THEN e.content.age.v ELSE 0)

C18_Witness ==
    \E i \in DOMAIN lastElicit :
        /\ lastElicit[i].schema = "UserInput"
        /\ lastElicit[i].answer = "accept"
        /\ lastElicit[i].content.name = [has |-> TRUE, v |-> "x"]
        /\ ~lastElicit[i].content.age.has
        /\ lastElicit[i].result.data =
              [cls |-> "UserInput", values |-> [name |-> "x", age |-> 0]]

\* C19: when the client answers decline or cancel, the result's action is
\* that answer, it carries no data, and no conversion to the dataclass is
\* made, whether the schema is a dataclass or a validation model.
C19_DeclineCancelNoData ==
    \A i \in DOMAIN lastElicit :
        LET e == lastElicit[i] IN
        e.answer \in {"decline", "cancel"} =>
            /\ e.result.action = e.answer
            /\ ~e.result.has_data
            /\ e.result.data = NoData
            /\ e.conversions = 0

C19_Witness ==
    \E i \in DOMAIN lastElicit :
        /\ lastElicit[i].schema = "UserInput"
        /\ lastElicit[i].answer = "decline"
        /\ lastElicit[i].content.name.has
        /\ lastElicit[i].result.action = "decline"
        /\ lastElicit[i].conversions = 0

\* C20: the create_message request of a sample call carries a sequence of
\* messages in the order given, every plain text replaced by a user-role
\* text message and every fully specified message unchanged.
C20_SampleCoercesText ==
    \A i \in DOMAIN lastSample :
        LET given == lastSample[i].input.items
            request == lastSample[i].call.messages
        IN /\ request.shape = "sequence"
           /\ Len(request.items) = Len(given)
           /\ \A j \in DOMAIN given :
                 request.items[j] = IF given[j].kind = "str"
                                 THEN text_message(given[j].text)
                                 ELSE given[j]

\* C21: a tools/call whose tool raises, and which no interceptor answers
\* itself, ends with a normal tool result with isError set, not with an
\* exception, whether the request went through the pipeline or not.
C21_ToolErrorIsResult ==
    \A i \in DOMAIN lastDispatch :
        LET d == lastDispatch[i] IN
        (/\ d.cls = "CallToolRequest"
         /\ d.params.name = "test_error_handling"
         /\ d.short \cap Range(middleware_chain) = {}) =>
            /\ d.handler_runs = 1
            /\ d.result.kind = "result"
            /\ d.result.isError = TRUE
            /\ d.result.by = "fastmcp"

C21_Witness ==
    \E i \in DOMAIN lastDispatch :
        /\ lastDispatch[i].cls = "CallToolRequest"
        /\ lastDispatch[i].params.name = "test_error_handling"
        /\ lastDispatch[i].entered = <<Telemetry, "I1", "I2", "fastmcp">>
        /\ lastDispatch[i].result.kind = "result"
        /\ lastDispatch[i].result.isError

(***************************************************************************)
(* Further properties of broadcasts and of the subscription table.         *)
(***************************************************************************)
\* the position of session s in the list of the broadcast, 0 if it has none
PositionOf(s) ==
    IF s \in Range(bc_sessions)
    THEN CHOOSE i \in DOMAIN bc_sessions : bc_sessions[i] = s
    ELSE 0

\* C23: a send of notify_resource_updated(u) that fails, raising an exception
\* of class Exception (the session is gone), is discarded: the broadcast does
\* not end by raising because of it (it ends by raising only when a send was
\* interrupted by the cancellation of the awaiting task), and when it has
\* returned after a failed send every other session subscribed all along has
\* got its one send.
C23_ExceptionSwallowed ==
    /\ bc_pc = "raised" => interrupted # {}
    /\ (bc_pc = "done" /\ failed # {}) =>
          \A s \in stable \ failed : sent[s] = 1

\* a broadcast has returned after the send to one session failed, and the
\* send to a subscriber later in the list was made
C23_Witness ==
    /\ bc_pc = "done"
    /\ \E f \in failed, s \in stable \ failed :
          /\ PositionOf(f) < PositionOf(s)
          /\ sent[f] = 1
          /\ sent[s] = 1

\* C24: the broadcast walks one list of the sessions, each at most once,
\* whatever registers or unregisters meanwhile; a session that left the
\* registry before the loop reached it gets no send that returns, and the
\* broadcast ends by raising only when the awaiting task was cancelled.
C24_RemovedMidBroadcast ==
    /\ \A i, j \in DOMAIN bc_sessions : bc_sessions[i] = bc_sessions[j] => i = j
    /\ \A s \in removed_mid : s \in Range(bc_sessions) /\ s \notin active_sessions
    /\ bc_pc = "raised" => interrupted # {}
    /\ bc_pc = "done" => \A s \in removed_mid : sent[s] = 0 \/ s \in failed

\* the number of send_resource_updated calls a notify_resource_updated(uri)
\* started in this state makes on session s, whatever the order of its list
DeliveriesTo(uri, s) ==
    {Cardinality({i \in DOMAIN order :
                    /\ order[i] = s
                    /\ IsSubscriber(order[i], Lookup(resource_subscriptions, uri))}) :
        order \in Orders(SnapshotSource)}

\* C25: a subscribe(u) by a session already subscribed to u leaves the table
\* as it was, a notify(u) then sends to that session exactly once, and after
\* an unsubscribe(u) by a session its id is in no subscriber set of u.
C25_SubscribeIdempotent ==
    \A i \in DOMAIN lastReq :
        LET r == lastReq[i] IN
        /\ (r.op = "subscribe" /\ r.session \in Sessions /\ r.was_subscribed) =>
              /\ resource_subscriptions = r.before
              /\ r.session \in active_sessions => DeliveriesTo(r.uri, r.session) = {1}
        /\ (r.op = "unsubscribe" /\ r.session \in Sessions) =>
              /\ addr[r.session] \notin Lookup(resource_subscriptions, r.uri)
              /\ DeliveriesTo(r.uri, r.session) = {0}

C25_Witness ==
    \E i \in DOMAIN lastReq :
        /\ lastReq[i].op = "subscribe"
        /\ lastReq[i].session \in active_sessions
        /\ lastReq[i].was_subscribed
        /\ resource_subscriptions[lastReq[i].uri] = {addr[lastReq[i].session]}
        /\ DeliveriesTo(lastReq[i].uri, lastReq[i].session) = {1}

\* C26: an unsubscribe(u) by a session that is not subscribed to u (it never
\* subscribed to u, or has unsubscribed since) raises nothing and leaves the
\* whole table as it was.
C26_UnsubscribeNotSubscribedNoop ==
    \A i \in DOMAIN lastReq :
        LET r == lastReq[i] IN
        (r.op = "unsubscribe" /\ r.session \in Sessions /\ ~r.was_subscribed) =>
            /\ ~r.raised
            /\ resource_subscriptions = r.before

\* C27: no URI of the table maps to an empty subscriber set, in any state,
\* broadcasts in progress included.
C27_NoEmptyEntry ==
    \A u \in DOMAIN resource_subscriptions : resource_subscriptions[u] # {}

C27_Witness ==
    /\ bc_pc = "sending"
    /\ bc_uri \notin DOMAIN resource_subscriptions
    /\ \E s \in active_sessions : hist[s][bc_uri] = "unsub"

\* C28: a subscribe or unsubscribe request handled with no current session
\* raises nothing and leaves the table as it was; it creates no entry.
C28_NoSessionNoop ==
    \A i \in DOMAIN lastReq :
        LET r == lastReq[i] IN
        r.session = NoSession =>
            /\ ~r.raised
            /\ resource_subscriptions = r.before
            /\ r.uri \notin DOMAIN r.before => r.uri \notin DOMAIN resource_subscriptions

C28_Witness ==
    \E i \in DOMAIN lastReq :
        /\ lastReq[i].session = NoSession
        /\ lastReq[i].op = "subscribe"
        /\ lastReq[i].uri = "data://live"
        /\ DOMAIN resource_subscriptions = {"test://subscribable"}

(***************************************************************************)
(* Properties of the configuration and of session-id resolution (SpecCfg). *)
(***************************************************************************)
\* C29: the session id resolved for the middleware context is the value of
\* the mcp-session-id header of the current HTTP request when there is one,
\* and null when there is no request context, no HTTP request in it, or no
\* such header; it is always a value, never an exception.
C29_SessionIdFromHeader ==
    \A i \in DOMAIN lastSessionId :
        LET rc == lastSessionId[i].context
            result == lastSessionId[i].result
        IN /\ (rc.has_context /\ rc.has_request /\ rc.has_headers
               /\ "mcp-session-id" \in DOMAIN rc.headers) =>
                  result = rc.headers["mcp-session-id"]
           /\ ~rc.has_context => result = "None"
           /\ ~rc.has_request => result = "None"
           /\ "mcp-session-id" \notin DOMAIN rc.headers => result = "None"

C29_Witness ==
    \E i \in DOMAIN lastSessionId :
        /\ lastSessionId[i].context.has_request
        /\ DOMAIN lastSessionId[i].context.headers = {"content-type", "mcp-session-id"}
        /\ lastSessionId[i].result = "sess-2"

\* C30: the transport security settings have DNS rebinding protection on
\* when the server was constructed with dns_rebinding_protection=True or
\* with host 127.0.0.1, and have none, or have it off, when it was
\* constructed with host 0.0.0.0 and without the flag.
C30_DnsRebindingProtection ==
    runs = 0 =>
        /\ (dns_rebinding_protection \/ ctor_host = "127.0.0.1") =>
              /\ transport_security.present
              /\ transport_security.enable_dns_rebinding_protection
        /\ (ctor_host = "0.0.0.0" /\ ~dns_rebinding_protection) =>
              \/ ~transport_security.present
              \/ ~transport_security.enable_dns_rebinding_protection

C30_Witness ==
    /\ runs = 0
    /\ ctor_host = "0.0.0.0"
    /\ dns_rebinding_protection
    /\ transport_security.enable_dns_rebinding_protection
    /\ transport_security.allowed_hosts[1] = "127.0.0.1:*"

\* C31: host and port are 0.0.0.0 and 8000 unless given to the
\* constructor; every run() hands the runner the host and port it was given,
\* and the constructor's values for those it was not given; a run() that
\* changes the host of a server with the protection requested starts the
\* server with the protection set up for the new host.
C31_RunBindsHostPort ==
    /\ runs = 0 =>
          /\ settings_host = (IF ctor_args.host = "None" THEN "0.0.0.0" ELSE ctor_args.host)
          /\ settings_port = (IF ctor_args.port = 0 THEN 8000 ELSE ctor_args.port)
    /\ \A i \in DOMAIN lastRun :
          LET r == lastRun[i] IN
          /\ r.bound_host = (IF r.host # "None" THEN r.host ELSE ctor_host)
          /\ r.bound_port = (IF r.port # 0 THEN r.port
                             ELSE IF ctor_args.port = 0 THEN 8000 ELSE ctor_args.port)
          /\ (r.bound_host # r.settings_before.host /\ dns_rebinding_protection) =>
                /\ r.security.present
                /\ r.security.enable_dns_rebinding_protection
                /\ r.security.allowed_hosts[1] =
                      (IF r.bound_host \in {"127.0.0.1", "localhost", "::1"}
                       THEN r.bound_host ELSE "127.0.0.1") \o ":*"

(***************************************************************************)
(* Further properties of the log-level gate (SpecLog).                     *)
(***************************************************************************)
\* C32: while the stored client level is not one of the eight level names,
\* it ranks 0 and every Context.log, at whichever of the eight levels, makes
\* its one send_log_message call.
C32_UnknownLevelPermissive ==
    client_log_level \notin Range(LevelSeq) =>
        /\ LevelRank(client_log_level) = 0
        /\ \A l \in Range(LevelSeq) : ~Suppressed(l, client_log_level)
        /\ \A i \in DOMAIN lastLog :
              /\ Len(lastLog[i].calls) = 1
              /\ lastLog[i].calls[1].level = lastLog[i].level

C32_Witness ==
    /\ last_set_level = "verbose"
    /\ client_log_level = "verbose"
    /\ \E i \in DOMAIN lastLog :
          /\ lastLog[i].level = "debug"
          /\ Len(lastLog[i].calls) = 1

(***************************************************************************)
(* The operations of one connection side by side: the protocol handlers,   *)
(* broadcasts and the Context facade (SpecFacade).                         *)
(***************************************************************************)
\* session 1 and its requests
RegisterF == register(1)
UnregisterF == unregister(1)
SubscribeF == handle_subscribe(1, "data://live") /\ UNCHANGED obsVars
UnsubscribeF == handle_unsubscribe(1, "data://live") /\ UNCHANGED obsVars
SetLevelF == \E l \in {"error", "verbose"} : handle_set_logging_level(1, l)
LogF == \E l \in {"info", "critical"} : log(1, 1, l, "x", "None")
SampleF == sample([shape |-> "single", items |-> <<PlainText("hello")>>], 1)
SampleReturnsF == \E trip \in RoundTrips : sample_returns(trip)
ElicitF == elicit(UserInput)
ElicitReturnsF ==
    \E trip \in RoundTrips :
        elicit_returns(trip, "accept",
                       [name |-> [has |-> TRUE, v |-> "Bob"], age |-> [has |-> FALSE, v |-> 5]])
ListRoots == list_roots
ListRootsReturns == \E trip \in RoundTrips, roots \in RootLists : list_roots_returns(trip, roots)
SendListChanged == \E kind \in ListChangedKinds : send_list_changed(kind)
SendListChangedReturns == \E ok \in BOOLEAN : send_list_changed_returns(ok)

NextFacade ==
    \/ RegisterF \/ UnregisterF \/ SubscribeF \/ UnsubscribeF \/ Notify \/ SendReturns
    \/ SetLevelF \/ LogF \/ SampleF \/ SampleReturnsF \/ ElicitF \/ ElicitReturnsF
    \/ ListRoots \/ ListRootsReturns \/ SendListChanged \/ SendListChangedReturns
SpecFacade == Init /\ [][NextFacade]_vars

\* C33: a step changes the stored client log level only if it is a
\* logging/setLevel request being handled; Context.log, subscribe,
\* unsubscribe, notify_resource_updated and its sends, sample, elicit,
\* list_roots and the list-changed senders leave it as it is.
C33_LevelChangedOnlyBySetLevel ==
    [][client_log_level' # client_log_level =>
          \E s \in Sessions, l \in SetLevelInputs : handle_set_logging_level(s, l)]_vars

\* while an elicit call awaits its answer: setLevel(error), a suppressed
\* log, a broadcast, a sample called and answered and a list-changed
\* notification, and the level is still error
C33_Witness ==
    /\ last_set_level = "error"
    /\ client_log_level = "error"
    /\ \E i \in DOMAIN lastLog : lastLog[i].level = "info" /\ lastLog[i].calls = <<>>
    /\ bc_pc = "done"
    /\ sent[1] = 1
    /\ \E i \in DOMAIN lastSample : lastSample[i].ended
    /\ \E i \in DOMAIN lastElicit : ~lastElicit[i].ended /\ lastElicit[i].requests = 1
    /\ \E i \in DOMAIN lastCall :
          lastCall[i].op = "send_tool_list_changed" /\ lastCall[i].ended

\* C34: every sample, list_roots and elicit call makes exactly one request
\* on the session; when that request fails (the client timed out, the
\* connection is closed) the call ends with that failure, and with no
\* failure when the client answered.
C34_OneRequestNoRetry ==
    /\ \A i \in DOMAIN lastSample :
          /\ lastSample[i].requests = 1
          /\ lastSample[i].ended =>
                lastSample[i].raised = (IF lastSample[i].trip = "ok" THEN "None"
                                        ELSE lastSample[i].trip)
    /\ \A i \in DOMAIN lastElicit :
          /\ lastElicit[i].requests = 1
          /\ lastElicit[i].ended =>
                lastElicit[i].raised = (IF lastElicit[i].trip = "ok" THEN "None"
                                        ELSE lastElicit[i].trip)
          /\ lastElicit[i].trip # "ok" =>
                lastElicit[i].conversions = 0 /\ ~lastElicit[i].result.has_data
    /\ \A i \in DOMAIN lastCall :
          lastCall[i].op = "list_roots" =>
              /\ lastCall[i].requests = 1
              /\ lastCall[i].ended =>
                    lastCall[i].raised = (IF lastCall[i].trip = "ok" THEN "None"
                                          ELSE lastCall[i].trip)

C34_Witness ==
    /\ \E i \in DOMAIN lastSample : lastSample[i].raised = "timeout"
    /\ \E i \in DOMAIN lastElicit : lastElicit[i].raised = "closed"
    /\ \E i \in DOMAIN lastCall :
          lastCall[i].op = "list_roots" /\ lastCall[i].raised = "timeout"

(***************************************************************************)
(* Requests in flight and their middleware contexts (SpecReq).             *)
(***************************************************************************)
\* the requests in flight are a set: a new one takes the first empty slot
FirstEmpty(slot) == \A other \in Slots : other < slot => in_flight[other] # <<>>

\* tools/call and resources/subscribe requests, with no request context or
\* with a session and the mcp-session-id header
BeginRequest ==
    \E slot \in Slots, cls \in {"CallToolRequest", "SubscribeRequest"},
       rc \in RequestContexts, session \in Sessions \cup {NoSession},
       awaits \in AwaitSets :
        \E params \in RequestParams(cls) \ {[name |-> "test_error_handling"]} :
            /\ FirstEmpty(slot)
            /\ ~rc.has_context \/ (rc.has_headers /\ DOMAIN rc.headers = {"mcp-session-id"})
            /\ begin_request(slot, cls, params, rc, session, {}, awaits)
ResumeRequest == \E slot \in Slots, awaits \in AwaitSets : resume_request(slot, awaits)

RegisterReq == register(1)

RunReq == \E t \in {"stdio", "sse"} : run(t, NoHost, NoPort)

\* a server constructed with one interceptor
InitReq ==
    /\ InitCore
    /\ Constructed_with(<<"I1">>)
    /\ Configured_with(NoHost, NoPort, FALSE)

NextReq == RegisterReq \/ RunReq \/ BeginRequest \/ ResumeRequest
SpecReq == InitReq /\ [][NextReq]_vars

\* the session id a context of request r is to have
HeaderSessionId(r) ==
    IF r.rc.has_context /\ r.rc.has_request /\ r.rc.has_headers
        /\ "mcp-session-id" \in DOMAIN r.rc.headers
    THEN r.rc.headers["mcp-session-id"] ELSE "None"

\* the wrappers of request r that are running: all of them while the
\* handler function runs, else those from the outermost to the one whose
\* pipeline the request is in, on its way in or on its way back
WrappersCalled(r) ==
    IF r.level = 0 THEN Len(r.wrappers) ELSE Len(r.wrappers) - r.level + 1

\* C35: every wrapper running for a request in flight built a context of
\* its own: its method is the one the handler was wired for, its message the
\* request's params, its session id the mcp-session-id header of that
\* request (null without one), its transport that of the latest run() when
\* no run() came after the wrapper was called, and no context object
\* belongs to two requests or two wrappers.
C35_FreshContextPerCall ==
    \A slot \in Slots : \A i \in DOMAIN in_flight[slot] :
        LET r == in_flight[slot][i] IN
        /\ Len(r.contexts) = WrappersCalled(r)
        /\ \A j \in DOMAIN r.contexts :
              /\ r.contexts[j].method = MethodOf(r.cls)
              /\ r.contexts[j].message = r.params
              /\ r.contexts[j].session_id = HeaderSessionId(r)
              /\ r.built_at[j] = runs =>
                    \A k \in DOMAIN lastRun : r.contexts[j].transport = lastRun[k].transport
              /\ \A j2 \in DOMAIN r.contexts :
                    r.contexts[j].obj = r.contexts[j2].obj => j = j2
              /\ \A slot2 \in Slots \ {slot} : \A i2 \in DOMAIN in_flight[slot2] :
                    \A j2 \in DOMAIN in_flight[slot2][i2].contexts :
                        in_flight[slot2][i2].contexts[j2].obj # r.contexts[j].obj

\* after run("stdio") and run("sse") a tools/call request with a session
\* id is suspended in the interceptor of its outer wrapper with one
\* context; a second one is in its handler function and holds the contexts
\* of both wrappers
C35_Witness ==
    /\ runs = 2
    /\ in_flight[1] # <<>>
    /\ in_flight[2] # <<>>
    /\ in_flight[1][1].cls = "CallToolRequest"
    /\ Len(in_flight[1][1].wrappers) = 2
    /\ Len(in_flight[1][1].contexts) = 1
    /\ in_flight[1][1].contexts[1].session_id = "sess-1"
    /\ in_flight[2][1].phase = "handler"
    /\ Len(in_flight[2][1].contexts) = 2
    /\ in_flight[2][1].contexts[1].transport = "sse"
    /\ in_flight[2][1].contexts[2].transport = "sse"
    /\ in_flight[1][1].contexts[1].obj # in_flight[2][1].contexts[1].obj

(***************************************************************************)
(* Identity reuse, broadcast timing and independence of subscriptions.     *)
(***************************************************************************)
\* C36: whatever the connects, subscribes, disconnects and reconnects, with
\* a later session possibly getting the id of a disconnected one, a
\* send_resource_updated(u) call is started only on a session that itself
\* subscribed to u.
C36_NoForeignNotification ==
    [][\A s \in Sessions : SendTo(s) => hist[s][bc_uri'] = "sub"]_vars

\* C37: a session that unsubscribed from u while notify_resource_updated(u)
\* was suspended on a send before its turn, and did not subscribe again,
\* gets no send from that broadcast; a session registered after the
\* broadcast took its list gets none either, even if it subscribes to u
\* meanwhile.
C37_DecidedAtOwnTurn ==
    /\ \A s \in unsub_mid : s \in Range(bc_sessions) /\ sent[s] = 0
    /\ \A s \in joined_mid : s \notin Range(bc_sessions) /\ sent[s] = 0

\* a broadcast sent to one session, was left without the other, which had
\* unsubscribed meanwhile, and ended
C37_Witness ==
    /\ bc_pc = "done"
    /\ \E s \in unsub_mid, t \in Sessions :
          /\ sent[t] = 1
          /\ PositionOf(t) < PositionOf(s)
          /\ s \in active_sessions
          /\ sent[s] = 0

\* a step of a broadcast: its start, or the return of one of its sends
BroadcastStep ==
    \/ bc_pc' # bc_pc
    \/ bc_idx' # bc_idx
    \/ bc_uri' # bc_uri
    \/ sent' # sent
    \/ failed' # failed

\* C38: no step of a broadcast, whether a send succeeded or failed, changes
\* the subscription table; a notify for a URI with no entry ends at once
\* with no send; and once a broadcast has ended, a session whose send failed
\* and which is still connected and subscribed is still in the table and
\* gets its send from a notify started then.
C38_NotifyLeavesTable ==
    /\ [][BroadcastStep =>
             /\ resource_subscriptions' = resource_subscriptions
             /\ (bc_pc # "sending" /\ bc_uri' \notin DOMAIN resource_subscriptions) =>
                   /\ bc_pc' = "done"
                   /\ \A s \in Sessions : sent'[s] = 0]_vars
    /\ [](bc_pc = "done" =>
             \A s \in failed \cap active_sessions :
                 hist[s][bc_uri] = "sub" =>
                     /\ addr[s] \in Lookup(resource_subscriptions, bc_uri)
                     /\ DeliveriesTo(bc_uri, s) = {1})

\* a broadcast ended after a failed send to a session that is still
\* connected and in the table
C38_Witness ==
    /\ bc_pc = "done"
    /\ \E s \in failed \cap active_sessions :
          /\ sent[s] = 1
          /\ hist[s][bc_uri] = "sub"
          /\ resource_subscriptions[bc_uri] = {addr[s]}

\* C39: a subscribe or unsubscribe request of session s for u changes at
\* most the membership of s under u: every other URI keeps its entry, every
\* other id keeps its place under u, every other session that subscribed to
\* u and has not unsubscribed, connected or not, is under u after the request
\* if and only if it was before, and after an unsubscribe(u1) a notify(u2)
\* still sends once to s when s is subscribed to u2.
C39_IndependentPerUriAndSession ==
    \A i \in DOMAIN lastReq :
        LET r == lastReq[i] IN
        r.session \in Sessions =>
            /\ \A u2 \in Uris \ {r.uri} :
                  /\ u2 \in DOMAIN resource_subscriptions <=> u2 \in DOMAIN r.before
                  /\ Lookup(resource_subscriptions, u2) = Lookup(r.before, u2)
            /\ \A a \in Addrs \ {addr[r.session]} :
                  a \in Lookup(resource_subscriptions, r.uri) <=> a \in Lookup(r.before, r.uri)
            /\ \A t \in Sessions \ {r.session} :
                  hist[t][r.uri] = "sub" =>
                      (addr[t] \in Lookup(resource_subscriptions, r.uri)
                          <=> addr[t] \in Lookup(r.before, r.uri))
            /\ (r.op = "unsubscribe" /\ r.session \in active_sessions) =>
                  \A u2 \in Uris \ {r.uri} :
                      hist[r.session][u2] = "sub" =>
                          /\ addr[r.session] \in Lookup(resource_subscriptions, u2)
                          /\ DeliveriesTo(u2, r.session) = {1}

(***************************************************************************)
(* Handlers registered before and after the wiring (SpecCompl).            *)
(***************************************************************************)
\* the last entry of a trace
Last(trace) == trace[Len(trace)]

\* C40: after run(), a completion/complete request whose handler was in the
\* registry at the latest wiring goes through the pipeline and, unless an
\* interceptor answers it, ends in that handler (the one registered with
\* mcp.completion(), or the default one); a request whose handler replaced
\* the registry entry after the wiring finds no wrapper: only the handler
\* runs, whatever the interceptors would have done.  The request is taken
\* as it was given to the registry: a registration while it is in flight
\* does not change the handler it ends in.
C40_ForwardsToHandlerAtWiring ==
    \A i \in DOMAIN lastDispatch :
        LET d == lastDispatch[i] IN
        (d.runs >= 1 /\ d.cls = "CompleteRequest") =>
            IF d.late
            THEN /\ d.wrappers = <<>>
                 /\ d.entered = <<"custom">>
                 /\ d.handler_runs = 1
                 /\ d.result.by = "custom"
            ELSE /\ d.wrappers # <<>>
                 /\ d.entered[1] = "telemetry"
                 /\ d.short \cap Range(middleware_chain) = {} =>
                       /\ Last(d.entered) = (IF d.custom THEN "custom" ELSE "default")
                       /\ d.handler_runs = 1
                       /\ d.result.by = (IF d.custom THEN "custom" ELSE "default")
                       /\ d.custom => d.result.completion = CustomCompletion(d.params)

\* run(), then mcp.completion(), then run() again: the registered handler
\* had replaced the first wrapper, was wired by the second run() and now
\* runs behind the pipeline
C40_Witness ==
    /\ runs = 2
    /\ Len(request_handlers["CallToolRequest"].wrappers) = 2
    /\ \E i \in DOMAIN lastDispatch :
          /\ lastDispatch[i].cls = "CompleteRequest"
          /\ lastDispatch[i].runs = 2
          /\ lastDispatch[i].custom
          /\ lastDispatch[i].wrappers = <<"completion/complete">>
          /\ lastDispatch[i].entered = <<"telemetry", "I1", "custom">>

====
